---- MODULE Spec2Model ----
(***************************************************************************)
(* Change-detection engine of the API documentation site: ChangeDetector   *)
(* (scripts/detect-changes.js), DynamicGroupChangeDetector (the grouped    *)
(* detector that scripts/generate-html-docs.sh appends to a copy of that   *)
(* script) and ChangeAnalyzer (scripts/detect-and-analyze-changes.js).     *)
(*                                                                         *)
(* JavaScript values are tagged records: the field t is the JS type, v the *)
(* payload.  A JS object whose key order matters (paths, path items,       *)
(* responses, properties) is a sequence of [key, value] entries in key     *)
(* declaration order.                                                      *)
(***************************************************************************)
EXTENDS Integers, Sequences, FiniteSets, TLC

VARIABLES
    oldFile,        \* what the old-spec path argument of ChangeDetector denotes
    newFile,        \* what the new-spec path argument of ChangeDetector denotes
    pc,             \* position of the run
    oldSpec,        \* ChangeDetector.oldSpec
    newSpec,        \* ChangeDetector.newSpec
    changes,        \* ChangeDetector.changes
    report,         \* the report written by saveReport (JUndef: none)
    oldVersionDir,  \* DynamicGroupChangeDetector: what oldVersionDir denotes
    newVersionDir,  \* DynamicGroupChangeDetector: what newVersionDir denotes
    ioFault,        \* which write of saveGroupedReport fails, if any
    groups,         \* DynamicGroupChangeDetector.groups
    groupedChanges, \* DynamicGroupChangeDetector.groupedChanges
    groupedReport,  \* changes-report-grouped.json as written (JUndef: none)
    legacyReport,   \* changes-report.json as written (JUndef: none)
    versions,       \* ChangeAnalyzer: what services/<service>/versions denotes
    currentVersion, \* ChangeAnalyzer: path.basename(targetDir)
    prevVersionDir, \* ChangeAnalyzer: what findPreviousVersion returned
    result,         \* ChangeAnalyzer: what analyze() returned or threw
    argv,           \* detect-changes.js run as a script: process.argv.slice(2)
    exitCode        \* the exit code of the script (JUndef: still running)

pairVars == <<oldFile, newFile, oldSpec, newSpec, changes, report>>
groupVars == <<oldVersionDir, newVersionDir, ioFault, groups, groupedChanges,
               groupedReport, legacyReport>>
callerVars == <<versions, currentVersion, prevVersionDir, result, argv, exitCode>>
vars == <<pc, pairVars, groupVars, callerVars>>

-----------------------------------------------------------------------------
(* JavaScript values *)

JUndef == [t |-> "undefined"]
JNull == [t |-> "null"]
JStr(s) == [t |-> "string", v |-> s]
JNum(n) == [t |-> "number", v |-> n]
JArr(items) == [t |-> "array", v |-> items]
JObj(entries) == [t |-> "object", v |-> entries]

\* JS truthiness, as used by `!x`, `x || y` and `if (x)`.
Truthy(x) ==
    CASE x.t = "undefined" -> FALSE
      [] x.t = "null" -> FALSE
      [] x.t = "string" -> x.v # ""
      [] x.t = "number" -> x.v # 0
      [] OTHER -> TRUE

\* x || y
OrElse(x, y) == IF Truthy(x) THEN x ELSE y

\* Object.keys(obj): the keys in declaration order.
Keys(obj) == [i \in 1..Len(obj.v) |-> obj.v[i].key]

\* array.includes(x)
Includes(s, x) == \E i \in 1..Len(s) : s[i] = x

\* obj[key]: undefined when the key is missing.
Get(obj, key) ==
    IF obj.t = "object" /\ \E i \in 1..Len(obj.v) : obj.v[i].key = key
    THEN obj.v[CHOOSE i \in 1..Len(obj.v) : obj.v[i].key = key].value
    ELSE JUndef

\* A field of a record-shaped object: undefined when the field is missing.
Field(rec, name) == IF name \in DOMAIN rec THEN rec[name] ELSE JUndef

RECURSIVE Flatten(_)
\* Concatenation of a sequence of sequences (nested forEach with push).
Flatten(ss) == IF Len(ss) = 0 THEN <<>> ELSE Head(ss) \o Flatten(Tail(ss))

RECURSIVE Dedup(_)
\* Insertion-ordered distinct elements: the iteration order of new Set(list).
Dedup(s) ==
    IF Len(s) = 0 THEN <<>>
    ELSE LET front == Dedup(SubSeq(s, 1, Len(s) - 1))
             last == s[Len(s)]
         IN  IF Includes(front, last) THEN front ELSE Append(front, last)

\* String.prototype.toUpperCase on the method keys of the model.
ToUpperCase(m) ==
    CASE m = "get" -> "GET"
      [] m = "post" -> "POST"
      [] m = "parameters" -> "PARAMETERS"
      [] OTHER -> m

\* array.map(f)
MapSeq(s, F(_)) == [i \in 1..Len(s) |-> F(s[i])]

-----------------------------------------------------------------------------
(* ChangeDetector: scripts/detect-changes.js *)

\* The result of a call that may throw: threw, and the value or state it left.
Threw(x) == [threw |-> TRUE, out |-> x]
Returned(x) == [threw |-> FALSE, out |-> x]

\* this.changes as the constructor sets it.
EmptyChanges ==
    [breaking |-> <<>>, newEndpoints |-> <<>>, modifiedEndpoints |-> <<>>,
     summary |-> [breakingChanges |-> 0, newEndpoints |-> 0,
                  modifiedEndpoints |-> 0, riskLevel |-> "low"]]

\* What a path argument of the constructor can denote.
NoPath == [kind |-> "nopath"]
Missing == [kind |-> "missing"]
Malformed == [kind |-> "malformed"]
Parsed(doc) == [kind |-> "parsed", content |-> doc]

\* loadSpec without its try/catch: a parse error propagates to the caller.
loadSpecUnguarded(file) ==
    CASE file.kind \in {"nopath", "missing"} -> Returned(JNull)
      [] file.kind = "malformed" -> Threw(JNull)
      [] OTHER -> Returned(file.content)

\* loadSpec(filePath).  file is what filePath denotes: "nopath" (filePath is
\* null, for which existsSync answers false), "missing", "malformed" (the
\* parser throws, the catch returns null) or "parsed" with the parsed tree.
loadSpec(file) ==
    CASE file.kind \in {"nopath", "missing"} -> Returned(JNull)
      [] file.kind = "malformed" -> Returned(JNull)
      [] OTHER -> Returned(file.content)

\* spec.paths || {}
PathsOf(spec) == OrElse(Field(spec, "paths"), JObj(<<>>))

\* The record pushed by detectNewEndpoints.
NewEndpointRecord(new, path, method) ==
    [path |-> path,
     method |-> ToUpperCase(method),
     summary |-> OrElse(Field(Get(Get(PathsOf(new), path), method), "summary"),
                        JStr("No summary"))]

\* The reserved-key test of the method loops: method !== 'parameters'.
IsOperationKey(method) == method # "parameters"

\* NewEndpointsOfPath without the else branch: only new paths are looked at.
NewEndpointsOfPathNewPathsOnly(old, new, path) ==
    IF ~Includes(Keys(PathsOf(old)), path)
    THEN MapSeq(SelectSeq(Keys(Get(PathsOf(new), path)), IsOperationKey),
                LAMBDA m : NewEndpointRecord(new, path, m))
    ELSE <<>>

\* NewEndpointsOfPath with the reserved-key test missing from the branch of
\* a path that old has as well.
NewEndpointsOfPathUnfiltered(old, new, path) ==
    LET oldPaths == Keys(PathsOf(old))
    IN  IF ~Includes(oldPaths, path)
        THEN LET methods == Keys(Get(PathsOf(new), path))
             IN  MapSeq(SelectSeq(methods, IsOperationKey),
                        LAMBDA m : NewEndpointRecord(new, path, m))
        ELSE LET oldMethods == Keys(OrElse(Get(PathsOf(old), path), JObj(<<>>)))
                 newMethods == Keys(OrElse(Get(PathsOf(new), path), JObj(<<>>)))
             IN  MapSeq(SelectSeq(newMethods, LAMBDA m : ~Includes(oldMethods, m)),
                        LAMBDA m : NewEndpointRecord(new, path, m))

\* NewEndpointsOfPath with the test against the methods of old missing:
\* every operation of new is pushed.
NewEndpointsOfPathEveryMethod(old, new, path) ==
    MapSeq(SelectSeq(Keys(Get(PathsOf(new), path)), IsOperationKey),
           LAMBDA m : NewEndpointRecord(new, path, m))

\* detectNewEndpoints, the body of newPaths.forEach for one path.
NewEndpointsOfPath(old, new, path) ==
    LET oldPaths == Keys(PathsOf(old))
    IN  IF ~Includes(oldPaths, path)
        THEN LET methods == Keys(Get(PathsOf(new), path))
             IN  MapSeq(SelectSeq(methods, IsOperationKey),
                        LAMBDA m : NewEndpointRecord(new, path, m))
        ELSE LET oldMethods == Keys(OrElse(Get(PathsOf(old), path), JObj(<<>>)))
                 newMethods == Keys(OrElse(Get(PathsOf(new), path), JObj(<<>>)))
             IN  MapSeq(SelectSeq(newMethods,
                                  LAMBDA m : IsOperationKey(m) /\ ~Includes(oldMethods, m)),
                        LAMBDA m : NewEndpointRecord(new, path, m))

\* detectNewEndpoints with the paths of new visited in sorted order.
detectNewEndpointsSortedPaths(old, new, ch) ==
    LET keys == Keys(PathsOf(new))
        sorted == SelectSeq(keys, LAMBDA p : p = "/items") \o
                  SelectSeq(keys, LAMBDA p : p # "/items")
        pushed == ch.newEndpoints \o
                  Flatten(MapSeq(sorted, LAMBDA p : NewEndpointsOfPath(old, new, p)))
    IN  [ch EXCEPT !.newEndpoints = pushed, !.summary.newEndpoints = Len(pushed)]

\* detectNewEndpoints(): pushes onto this.changes.newEndpoints, then sets the count.
detectNewEndpoints(old, new, ch) ==
    LET pushed == ch.newEndpoints \o
                  Flatten(MapSeq(Keys(PathsOf(new)),
                                 LAMBDA p : NewEndpointsOfPath(old, new, p)))
    IN  [ch EXCEPT !.newEndpoints = pushed, !.summary.newEndpoints = Len(pushed)]

RECURSIVE RunAll(_)
\* Steps run one after the other, each pushing its records; the first step
\* that throws ends the run, and what was pushed before it stays pushed.
RunAll(steps) ==
    IF Len(steps) = 0 THEN Returned(<<>>)
    ELSE IF Head(steps).threw THEN Head(steps)
    ELSE LET rest == RunAll(Tail(steps))
         IN  [threw |-> rest.threw, out |-> Head(steps).out \o rest.out]

\* `${p.in}:${p.name}`, as the list of its ':'-separated pieces; a parameter
\* name is held as the list of its own ':'-separated pieces.
ParamKey(p) == <<p.in>> \o p.name

\* params.filter(p => p.required).map(key), as a Set in insertion order.
\* Throws (filter is not a function) when params is not an array.
RequiredKeys(params) ==
    IF params.t # "array" THEN Threw(<<>>)
    ELSE Returned(Dedup(MapSeq(SelectSeq(params.v, LAMBDA p : p.required), ParamKey)))

\* checkRequiredParameters(path, method, oldOperation, newOperation)
checkRequiredParameters(path, method, oldOperation, newOperation) ==
    LET oldParams == OrElse(Field(oldOperation, "parameters"), JArr(<<>>))
        newParams == OrElse(Field(newOperation, "parameters"), JArr(<<>>))
        oldRequired == RequiredKeys(oldParams)
        newRequired == RequiredKeys(newParams)
    IN  IF oldRequired.threw \/ newRequired.threw THEN Threw(<<>>)
        ELSE Returned(
               MapSeq(SelectSeq(newRequired.out,
                                LAMBDA k : ~Includes(oldRequired.out, k)),
                      LAMBDA k : [type |-> "REQUIRED_PARAMETER_ADDED",
                                  path |-> path,
                                  method |-> ToUpperCase(method),
                                  parameter |-> [name |-> IF Len(k) >= 2 THEN JStr(k[2]) ELSE JUndef,
                                                 location |-> JStr(k[1])]]))

\* extractResponseSchema without the fallback to the bare schema field.
extractResponseSchemaContentOnly(response) ==
    OrElse(Field(Get(Field(response, "content"), "application/json"), "schema"),
           Field(Get(Field(response, "content"), "application/xml"), "schema"))

\* extractResponseSchema(response)
extractResponseSchema(response) ==
    OrElse(Field(Get(Field(response, "content"), "application/json"), "schema"),
           OrElse(Field(Get(Field(response, "content"), "application/xml"), "schema"),
                  Field(response, "schema")))

\* hasSchemaBreakingChanges with the negation of the property test dropped.
hasSchemaBreakingChangesKept(oldSchema, newSchema) ==
    IF ~Truthy(oldSchema) \/ ~Truthy(newSchema) THEN FALSE
    ELSE LET oldProps == IF Truthy(Field(oldSchema, "properties"))
                         THEN Keys(oldSchema.properties) ELSE <<>>
             newProps == IF Truthy(Field(newSchema, "properties"))
                         THEN Keys(newSchema.properties) ELSE <<>>
             oldRequired == OrElse(Field(oldSchema, "required"), JArr(<<>>)).v
             newRequired == OrElse(Field(newSchema, "required"), JArr(<<>>)).v
         IN  \/ \E i \in 1..Len(oldRequired) : ~Includes(newRequired, oldRequired[i])
             \/ \E i \in 1..Len(oldProps) : Includes(newProps, oldProps[i])

\* hasSchemaBreakingChanges(oldSchema, newSchema)
hasSchemaBreakingChanges(oldSchema, newSchema) ==
    IF ~Truthy(oldSchema) \/ ~Truthy(newSchema) THEN FALSE
    ELSE LET oldProps == IF Truthy(Field(oldSchema, "properties"))
                         THEN Keys(oldSchema.properties) ELSE <<>>
             newProps == IF Truthy(Field(newSchema, "properties"))
                         THEN Keys(newSchema.properties) ELSE <<>>
             oldRequired == OrElse(Field(oldSchema, "required"), JArr(<<>>)).v
             newRequired == OrElse(Field(newSchema, "required"), JArr(<<>>)).v
         IN  \/ \E i \in 1..Len(oldRequired) : ~Includes(newRequired, oldRequired[i])
             \/ \E i \in 1..Len(oldProps) : ~Includes(newProps, oldProps[i])

\* statusCode.startsWith('2') on the status codes of the model.
StartsWith2(statusCode) == statusCode \in {"200", "201"}

\* checkResponseChanges(path, method, oldOperation, newOperation)
checkResponseChanges(path, method, oldOperation, newOperation) ==
    LET oldResponses == OrElse(Field(oldOperation, "responses"), JObj(<<>>))
        newResponses == OrElse(Field(newOperation, "responses"), JObj(<<>>))
        Changed(statusCode) ==
            /\ StartsWith2(statusCode)
            /\ Truthy(Get(newResponses, statusCode))
            /\ hasSchemaBreakingChanges(
                   extractResponseSchema(Get(oldResponses, statusCode)),
                   extractResponseSchema(Get(newResponses, statusCode)))
    IN  MapSeq(SelectSeq(Keys(oldResponses), Changed),
               LAMBDA c : [type |-> "RESPONSE_SCHEMA_CHANGED",
                           path |-> path,
                           method |-> ToUpperCase(method),
                           statusCode |-> c])

\* The record pushed for a removed path's method or a removed method.
RemovedRecord(type, path, method) ==
    [type |-> type, path |-> path, method |-> ToUpperCase(method)]

\* detectBreakingChanges, the body of the inner forEach for one method of a
\* path that new still has.
BreakingOfMethod(old, new, path, method) ==
    IF ~IsOperationKey(method) THEN Returned(<<>>)
    ELSE LET oldOperation == Get(Get(PathsOf(old), path), method)
             newOperation == Get(Get(PathsOf(new), path), method)
         IN  IF ~Truthy(newOperation)
             THEN Returned(<<RemovedRecord("METHOD_REMOVED", path, method)>>)
             ELSE LET req == checkRequiredParameters(path, method, oldOperation, newOperation)
                  IN  IF req.threw THEN req
                      ELSE Returned(req.out \o
                             checkResponseChanges(path, method, oldOperation, newOperation))

\* BreakingOfPath without the `return` after the removed-path branch: the
\* method loop runs for the removed path as well.
BreakingOfPathFallThrough(old, new, path) ==
    LET methods == Keys(Get(PathsOf(old), path))
        removed == IF ~Truthy(Get(PathsOf(new), path))
                   THEN MapSeq(SelectSeq(methods, IsOperationKey),
                               LAMBDA m : RemovedRecord("ENDPOINT_REMOVED", path, m))
                   ELSE <<>>
        rest == RunAll(MapSeq(methods, LAMBDA m : BreakingOfMethod(old, new, path, m)))
    IN  [threw |-> rest.threw, out |-> removed \o rest.out]

\* detectBreakingChanges, the body of the outer forEach for one path of old.
BreakingOfPath(old, new, path) ==
    LET methods == Keys(Get(PathsOf(old), path))
    IN  IF ~Truthy(Get(PathsOf(new), path))
        THEN Returned(MapSeq(SelectSeq(methods, IsOperationKey),
                             LAMBDA m : RemovedRecord("ENDPOINT_REMOVED", path, m)))
        ELSE RunAll(MapSeq(methods, LAMBDA m : BreakingOfMethod(old, new, path, m)))

\* detectBreakingChanges without the closing assignment of the count.
detectBreakingChangesStaleCount(old, new, ch) ==
    LET run == RunAll(MapSeq(Keys(PathsOf(old)), LAMBDA p : BreakingOfPath(old, new, p)))
    IN  [threw |-> run.threw, out |-> [ch EXCEPT !.breaking = ch.breaking \o run.out]]

\* detectBreakingChanges(): pushes onto this.changes.breaking, then sets the
\* count; a throw leaves the pushed records and the old count.
detectBreakingChanges(old, new, ch) ==
    LET run == RunAll(MapSeq(Keys(PathsOf(old)), LAMBDA p : BreakingOfPath(old, new, p)))
        pushed == ch.breaking \o run.out
    IN  IF run.threw
        THEN Threw([ch EXCEPT !.breaking = pushed])
        ELSE Returned([ch EXCEPT !.breaking = pushed,
                                 !.summary.breakingChanges = Len(pushed)])

\* OptionalCount without the filter: every parameter is counted.
OptionalCountAllParameters(operation) ==
    LET params == OrElse(Field(operation, "parameters"), JArr(<<>>))
    IN  IF params.t # "array" THEN Threw(0)
        ELSE Returned(Len(params.v))

\* (operation.parameters || []).filter(p => !p.required).length
\* Throws (filter is not a function) when the parameters are not an array.
OptionalCount(operation) ==
    LET params == OrElse(Field(operation, "parameters"), JArr(<<>>))
    IN  IF params.t # "array" THEN Threw(0)
        ELSE Returned(Len(SelectSeq(params.v, LAMBDA p : ~p.required)))

\* ModifiedTags with the optional-parameter test `!==` in the place of `>`:
\* a lower count is tagged as well.
ModifiedTagsCountChanged(oldOperation, newOperation) ==
    LET oldOptionalParams == OptionalCount(oldOperation)
        newOptionalParams == OptionalCount(newOperation)
    IN  IF oldOptionalParams.threw \/ newOptionalParams.threw THEN Threw(<<>>)
        ELSE Returned(
               (IF oldOperation.summary # newOperation.summary
                THEN <<"Summary updated">> ELSE <<>>) \o
               (IF oldOperation.description # newOperation.description
                THEN <<"Description updated">> ELSE <<>>) \o
               (IF newOptionalParams.out # oldOptionalParams.out
                THEN <<"Optional parameters added">> ELSE <<>>))

\* The tags detectModifiedEndpoints collects for one matched operation.
ModifiedTags(oldOperation, newOperation) ==
    LET oldOptionalParams == OptionalCount(oldOperation)
        newOptionalParams == OptionalCount(newOperation)
    IN  IF oldOptionalParams.threw \/ newOptionalParams.threw THEN Threw(<<>>)
        ELSE Returned(
               (IF oldOperation.summary # newOperation.summary
                THEN <<"Summary updated">> ELSE <<>>) \o
               (IF oldOperation.description # newOperation.description
                THEN <<"Description updated">> ELSE <<>>) \o
               (IF newOptionalParams.out > oldOptionalParams.out
                THEN <<"Optional parameters added">> ELSE <<>>))

\* detectModifiedEndpoints, the body of the inner forEach for one method.
ModifiedOfMethod(old, new, path, method) ==
    IF ~IsOperationKey(method) THEN Returned(<<>>)
    ELSE LET oldOperation == Get(Get(PathsOf(old), path), method)
             newOperation == Get(Get(PathsOf(new), path), method)
         IN  IF ~Truthy(newOperation) THEN Returned(<<>>)
             ELSE LET tags == ModifiedTags(oldOperation, newOperation)
                  IN  IF tags.threw THEN tags
                      ELSE IF Len(tags.out) > 0
                      THEN Returned(<<[path |-> path,
                                       method |-> ToUpperCase(method),
                                       changes |-> tags.out]>>)
                      ELSE Returned(<<>>)

\* detectModifiedEndpoints, the body of the outer forEach for one path of old.
ModifiedOfPath(old, new, path) ==
    IF ~Truthy(Get(PathsOf(new), path)) THEN Returned(<<>>)
    ELSE RunAll(MapSeq(Keys(Get(PathsOf(old), path)),
                       LAMBDA m : ModifiedOfMethod(old, new, path, m)))

\* detectModifiedEndpoints()
detectModifiedEndpoints(old, new, ch) ==
    LET run == RunAll(MapSeq(Keys(PathsOf(old)), LAMBDA p : ModifiedOfPath(old, new, p)))
        pushed == ch.modifiedEndpoints \o run.out
    IN  IF run.threw
        THEN Threw([ch EXCEPT !.modifiedEndpoints = pushed])
        ELSE Returned([ch EXCEPT !.modifiedEndpoints = pushed,
                                 !.summary.modifiedEndpoints = Len(pushed)])

\* The per-group thresholds with the aggregate's numbers in their place.
RiskLevelAggregateThresholds(breaking, modified) ==
    IF breaking > 10 THEN "critical"
    ELSE IF breaking > 5 THEN "high"
    ELSE IF breaking > 0 \/ modified > 20 THEN "medium"
    ELSE "low"

\* The level calculateRiskLevel() assigns for the two counts it reads.
RiskLevel(breaking, modified) ==
    IF breaking > 5 THEN "critical"
    ELSE IF breaking > 2 THEN "high"
    ELSE IF breaking > 0 \/ modified > 10 THEN "medium"
    ELSE "low"

\* calculateRiskLevel()
calculateRiskLevel(ch) ==
    [ch EXCEPT !.summary.riskLevel =
        RiskLevel(ch.summary.breakingChanges, ch.summary.modifiedEndpoints)]

\* analyze() past its short-circuit with the risk level left as the
\* constructor set it.
analyzeBothWithoutRiskLevel(old, new, ch) ==
    LET c1 == detectNewEndpoints(old, new, ch)
        r2 == detectBreakingChanges(old, new, c1)
        r3 == detectModifiedEndpoints(old, new, r2.out)
    IN  IF r2.threw THEN r2
        ELSE IF r3.threw THEN r3
        ELSE Returned(r3.out)

\* analyze() past its short-circuit: the three detections and the risk level.
analyzeBoth(old, new, ch) ==
    LET c1 == detectNewEndpoints(old, new, ch)
        r2 == detectBreakingChanges(old, new, c1)
        r3 == detectModifiedEndpoints(old, new, r2.out)
    IN  IF r2.threw THEN r2
        ELSE IF r3.threw THEN r3
        ELSE Returned(calculateRiskLevel(r3.out))

\* analyze() with a short-circuit that tests the old document only: reading
\* the paths of a null new document throws.
analyzeOldOnlyGuard(old, new, ch) ==
    IF ~Truthy(old) THEN Returned(ch)
    ELSE IF ~Truthy(new) THEN Threw(ch)
    ELSE analyzeBoth(old, new, ch)

\* analyze(): the state of this.changes it leaves, and whether it threw;
\* when it returns, the value returned is this.changes.
analyze(old, new, ch) ==
    IF ~Truthy(old) \/ ~Truthy(new) THEN Returned(ch)
    ELSE analyzeBoth(old, new, ch)

\* JSON.stringify of a change set's summary: the counts are numbers, the
\* risk level a string.
SummaryJson(summary) ==
    [breakingChanges |-> JNum(summary.breakingChanges),
     newEndpoints |-> JNum(summary.newEndpoints),
     modifiedEndpoints |-> JNum(summary.modifiedEndpoints),
     riskLevel |-> JStr(summary.riskLevel)]

\* The report saveReport(outputPath) writes; generatedAt, a clock reading, is
\* left out.
saveReport(ch) ==
    [summary |-> SummaryJson(ch.summary),
     changes |-> [breaking |-> ch.breaking,
                  newEndpoints |-> ch.newEndpoints,
                  modifiedEndpoints |-> ch.modifiedEndpoints]]

-----------------------------------------------------------------------------
(* DynamicGroupChangeDetector: scripts/generate-html-docs.sh *)

\* A file name, in the pieces the scan tests: what it starts with, what it
\* ends with (after the last dot) and what lies between.
FileName(prefix, name, ext) == [prefix |-> prefix, name |-> name, ext |-> ext]

\* What a directory argument can denote.
NullDir == [kind |-> "null"]       \* no directory given (null)
NoDir == [kind |-> "nodir"]        \* a path that does not exist
Dir(files) == [kind |-> "dir", files |-> files]   \* the listing readdirSync returns

\* path.join(directory, file)
PathJoin(dirName, file) == [t |-> "path", dir |-> dirName, file |-> file]

\* The filter of scanGroupFiles.
IsGroupFile(file) ==
    file.prefix = "apiDocs-" /\ file.ext \in {"json", "yaml", "yml"}

\* extractGroupName(filename), on a file name that passed the filter: the
\* prefix and the extension are stripped.
extractGroupName(file) == file.name

\* The place of a group name in the order of localeCompare: digits come
\* before letters, and 10 before 2.
NameRank(name) ==
    CASE name = "10" -> 1
      [] name = "2" -> 2
      [] name = "all" -> 3
      [] name = "api" -> 4
      [] OTHER -> 5

\* One step of the stable sort by name: g goes behind every entry whose name
\* does not compare greater.
InsertByName(sorted, g) ==
    LET k == Cardinality({i \in 1..Len(sorted) :
                            NameRank(sorted[i].name) <= NameRank(g.name)})
    IN  SubSeq(sorted, 1, k) \o <<g>> \o SubSeq(sorted, k + 1, Len(sorted))

RECURSIVE SortByName(_)
\* .sort((a, b) => a.name.localeCompare(b.name))
SortByName(gs) ==
    IF Len(gs) = 0 THEN <<>>
    ELSE InsertByName(SortByName(SubSeq(gs, 1, Len(gs) - 1)), gs[Len(gs)])

\* The object scanGroupFiles makes of a file name that passed the filter.
ScannedFile(dirName, file) ==
    [t |-> "object",
     name |-> extractGroupName(file),
     path |-> PathJoin(dirName, file),
     file |-> file]

\* scanGroupFiles(directory)
scanGroupFiles(dirName, directory) ==
    IF directory.kind # "dir" THEN <<>>
    ELSE SortByName(
           MapSeq(SelectSeq(directory.files, LAMBDA f : IsGroupFile(f.file)),
                  LAMBDA f : ScannedFile(dirName, f.file)))

\* generateDisplayName(groupName)
generateDisplayName(groupName) ==
    CASE groupName = "all" -> "Complete API"
      [] groupName = "api" -> "Public API"
      [] groupName = "internal" -> "Internal API"
      [] groupName = "admin" -> "Admin API"
      [] groupName = "mobile" -> "Mobile API"
      [] groupName = "partner" -> "Partner API"
      [] groupName = "webhook" -> "Webhook API"
      [] OTHER -> "Capitalized API"

\* The number a key denotes when it is an array index (a canonical numeral),
\* -1 when it is not.
IndexValue(key) ==
    CASE key = "2" -> 2
      [] key = "10" -> 10
      [] OTHER -> -1

\* Put onto a list of entries: the entry is appended, whether the key is
\* there or not.
PutAppended(obj, key, value) == JObj(Append(obj.v, [key |-> key, value |-> value]))

\* obj[key] = value: a key the object has keeps its place; a new key that is
\* an array index goes among the index keys, which an object lists first in
\* ascending numeric order; any other new key goes to the end.
Put(obj, key, value) ==
    IF \E i \in 1..Len(obj.v) : obj.v[i].key = key
    THEN JObj([i \in 1..Len(obj.v) |->
                 IF obj.v[i].key = key THEN [key |-> key, value |-> value]
                 ELSE obj.v[i]])
    ELSE IF IndexValue(key) >= 0
    THEN LET k == Cardinality({i \in 1..Len(obj.v) :
                                 /\ IndexValue(obj.v[i].key) >= 0
                                 /\ IndexValue(obj.v[i].key) < IndexValue(key)})
         IN  JObj(SubSeq(obj.v, 1, k) \o <<[key |-> key, value |-> value]>>
                  \o SubSeq(obj.v, k + 1, Len(obj.v)))
    ELSE JObj(Append(obj.v, [key |-> key, value |-> value]))

\* oldGroups.find(oldGroup => oldGroup.name === name)
FindByName(oldGroups, name) ==
    IF \E i \in 1..Len(oldGroups) : oldGroups[i].name = name
    THEN oldGroups[CHOOSE i \in 1..Len(oldGroups) :
                     /\ oldGroups[i].name = name
                     /\ \A j \in 1..(i - 1) : oldGroups[j].name # name]
    ELSE JUndef

\* The group discoverGroups stores for one scanned file of the new directory.
GroupOf(group, oldGroups) ==
    LET matchingOldGroup == FindByName(oldGroups, group.name)
    IN  [t |-> "object",
         name |-> group.name,
         displayName |-> generateDisplayName(group.name),
         newPath |-> group.path,
         oldPath |-> IF Truthy(matchingOldGroup) THEN matchingOldGroup.path ELSE JNull]

RECURSIVE PutGroups(_, _, _)
\* newGroups.forEach(group => { this.groups[group.name] = ... })
PutGroups(gs, newGroups, oldGroups) ==
    IF Len(newGroups) = 0 THEN gs
    ELSE PutGroups(Put(gs, Head(newGroups).name, GroupOf(Head(newGroups), oldGroups)),
                   Tail(newGroups), oldGroups)

\* discoverGroups(): this.groups as it leaves it.  Without an old directory
\* oldGroups is the object {}, which has no find: the first group throws.
discoverGroups(gs, oldDir, newDir) ==
    LET newGroups == scanGroupFiles("new", newDir)
    IN  IF oldDir.kind = "null"
        THEN IF Len(newGroups) > 0 THEN Threw(gs) ELSE Returned(gs)
        ELSE Returned(PutGroups(gs, newGroups, scanGroupFiles("old", oldDir)))

\* What a path given to the ChangeDetector constructor denotes.
FileAt(path, oldDir, newDir) ==
    IF ~Truthy(path) THEN NoPath
    ELSE LET files == IF path.dir = "old" THEN oldDir.files ELSE newDir.files
         IN  files[CHOOSE i \in 1..Len(files) : files[i].file = path.file].content

\* The entry analyzeAllGroups stores for a group whose analysis returned.
GroupEntry(group, ch) ==
    [t |-> "object",
     breaking |-> ch.breaking,
     newEndpoints |-> ch.newEndpoints,
     modifiedEndpoints |-> ch.modifiedEndpoints,
     summary |-> ch.summary,
     groupInfo |-> [name |-> group.name,
                    displayName |-> group.displayName,
                    hasOldVersion |-> Truthy(group.oldPath),
                    newFilePath |-> group.newPath,
                    oldFilePath |-> group.oldPath]]

\* The entry analyzeAllGroups stores in its catch.
FailedEntry(group) ==
    [t |-> "object",
     breaking |-> <<>>,
     newEndpoints |-> <<>>,
     modifiedEndpoints |-> <<>>,
     summary |-> [breakingChanges |-> 0, newEndpoints |-> 0,
                  modifiedEndpoints |-> 0, riskLevel |-> "unknown"],
     groupInfo |-> [name |-> group.name,
                    displayName |-> group.displayName,
                    hasOldVersion |-> Truthy(group.oldPath),
                    error |-> JStr("newParams.filter is not a function")]]

\* analyzeAllGroups, the body of the forEach for one group: a new
\* ChangeDetector, analyze(), and the entry stored, all inside the try.
AnalyzeGroup(group, oldDir, newDir) ==
    LET o == loadSpec(FileAt(group.oldPath, oldDir, newDir))
        n == loadSpec(FileAt(group.newPath, oldDir, newDir))
    IN  IF o.threw \/ n.threw THEN FailedEntry(group)
        ELSE LET r == analyze(o.out, n.out, EmptyChanges)
             IN  IF r.threw THEN FailedEntry(group) ELSE GroupEntry(group, r.out)

RECURSIVE PutEntriesUntilFailure(_, _, _, _)
\* PutEntries with the try around the whole forEach: the first group that
\* fails gets the fallback entry and ends the loop.
PutEntriesUntilFailure(gc, gs, oldDir, newDir) ==
    IF Len(gs) = 0 THEN gc
    ELSE LET entry == AnalyzeGroup(Head(gs).value, oldDir, newDir)
         IN  IF "error" \in DOMAIN entry.groupInfo
             THEN Put(gc, Head(gs).key, entry)
             ELSE PutEntriesUntilFailure(Put(gc, Head(gs).key, entry),
                                         Tail(gs), oldDir, newDir)

RECURSIVE PutEntries(_, _, _, _)
\* Object.keys(this.groups).forEach(groupName => { ... })
PutEntries(gc, gs, oldDir, newDir) ==
    IF Len(gs) = 0 THEN gc
    ELSE PutEntries(Put(gc, Head(gs).key, AnalyzeGroup(Head(gs).value, oldDir, newDir)),
                    Tail(gs), oldDir, newDir)

\* analyzeAllGroups(): this.groups and this.groupedChanges as it leaves them;
\* a throw of discoverGroups propagates.
analyzeAllGroups(gs, gc, oldDir, newDir) ==
    LET d == discoverGroups(gs, oldDir, newDir)
    IN  IF d.threw THEN Threw([groups |-> d.out, groupedChanges |-> gc])
        ELSE Returned([groups |-> d.out,
                       groupedChanges |-> PutEntries(gc, d.out.v, oldDir, newDir)])

RECURSIVE SumOf(_, _)
\* The sum over the entries of one count of their summaries.
SumOf(entries, count) ==
    IF Len(entries) = 0 THEN 0
    ELSE Head(entries).value.summary[count] + SumOf(Tail(entries), count)

\* The aggregate's thresholds with the per-group numbers in their place.
OverallRiskLevelPerGroupThresholds(totalBreaking, totalModified) ==
    IF totalBreaking > 5 THEN "critical"
    ELSE IF totalBreaking > 2 THEN "high"
    ELSE IF totalBreaking > 0 \/ totalModified > 10 THEN "medium"
    ELSE "low"

\* The aggregate's levels without the branch of high.
OverallRiskLevelWithoutHigh(totalBreaking, totalModified) ==
    IF totalBreaking > 10 THEN "critical"
    ELSE IF totalBreaking > 0 \/ totalModified > 20 THEN "medium"
    ELSE "low"

\* The level calculateOverallSummary() assigns for the two totals.
OverallRiskLevel(totalBreaking, totalModified) ==
    IF totalBreaking > 10 THEN "critical"
    ELSE IF totalBreaking > 5 THEN "high"
    ELSE IF totalBreaking > 0 \/ totalModified > 20 THEN "medium"
    ELSE "low"

\* calculateOverallSummary with totalNewEndpoints fed from the modified
\* counts.
calculateOverallSummaryMiscounted(gc) ==
    LET totalBreaking == SumOf(gc.v, "breakingChanges")
        totalModified == SumOf(gc.v, "modifiedEndpoints")
    IN  [totalBreakingChanges |-> totalBreaking,
         totalNewEndpoints |-> totalModified,
         totalModifiedEndpoints |-> totalModified,
         overallRiskLevel |-> OverallRiskLevel(totalBreaking, totalModified)]

\* calculateOverallSummary()
calculateOverallSummary(gc) ==
    LET totalBreaking == SumOf(gc.v, "breakingChanges")
        totalModified == SumOf(gc.v, "modifiedEndpoints")
    IN  [totalBreakingChanges |-> totalBreaking,
         totalNewEndpoints |-> SumOf(gc.v, "newEndpoints"),
         totalModifiedEndpoints |-> totalModified,
         overallRiskLevel |-> OverallRiskLevel(totalBreaking, totalModified)]

\* generateGroupedReport(); generatedAt, a clock reading, is left out.
generateGroupedReport(gc) ==
    [totalGroups |-> Len(Keys(gc)),
     groups |-> gc,
     summary |-> calculateOverallSummary(gc)]

\* JSON.stringify of the aggregate summary.
OverallSummaryJson(summary) ==
    [totalBreakingChanges |-> JNum(summary.totalBreakingChanges),
     totalNewEndpoints |-> JNum(summary.totalNewEndpoints),
     totalModifiedEndpoints |-> JNum(summary.totalModifiedEndpoints),
     overallRiskLevel |-> JStr(summary.overallRiskLevel)]

\* generateLegacyCompatibleReport without the branch of the `all` group:
\* the union of the groups in every case.
generateLegacyCompatibleReportUnionOnly(gc, grouped) ==
    [summary |-> OverallSummaryJson(grouped.summary),
     changes |->
       [breaking |-> Flatten(MapSeq(gc.v, LAMBDA e : e.value.breaking)),
        newEndpoints |-> Flatten(MapSeq(gc.v, LAMBDA e : e.value.newEndpoints)),
        modifiedEndpoints |->
            Flatten(MapSeq(gc.v, LAMBDA e : e.value.modifiedEndpoints))]]

\* generateLegacyCompatibleReport with the union freed of duplicates.
generateLegacyCompatibleReportDeduplicated(gc, grouped) ==
    LET allGroup == Get(gc, "all")
    IN  IF Truthy(allGroup)
        THEN [summary |-> SummaryJson(allGroup.summary),
              changes |-> [breaking |-> allGroup.breaking,
                           newEndpoints |-> allGroup.newEndpoints,
                           modifiedEndpoints |-> allGroup.modifiedEndpoints]]
        ELSE [summary |-> OverallSummaryJson(grouped.summary),
              changes |->
                [breaking |-> Dedup(Flatten(MapSeq(gc.v, LAMBDA e : e.value.breaking))),
                 newEndpoints |->
                     Dedup(Flatten(MapSeq(gc.v, LAMBDA e : e.value.newEndpoints))),
                 modifiedEndpoints |->
                     Dedup(Flatten(MapSeq(gc.v, LAMBDA e : e.value.modifiedEndpoints)))]]

\* generateLegacyCompatibleReport(groupedReport)
generateLegacyCompatibleReport(gc, grouped) ==
    LET allGroup == Get(gc, "all")
    IN  IF Truthy(allGroup)
        THEN [summary |-> SummaryJson(allGroup.summary),
              changes |-> [breaking |-> allGroup.breaking,
                           newEndpoints |-> allGroup.newEndpoints,
                           modifiedEndpoints |-> allGroup.modifiedEndpoints]]
        ELSE [summary |-> OverallSummaryJson(grouped.summary),
              changes |->
                [breaking |-> Flatten(MapSeq(gc.v, LAMBDA e : e.value.breaking)),
                 newEndpoints |-> Flatten(MapSeq(gc.v, LAMBDA e : e.value.newEndpoints)),
                 modifiedEndpoints |->
                     Flatten(MapSeq(gc.v, LAMBDA e : e.value.modifiedEndpoints))]]

-----------------------------------------------------------------------------
(* The documents of the model *)

\* Bound: method-mapping keys in the old and the new document together.
MaxEntries == 3
PathKeys == {"/items", "/users"}
MethodKeys == {"get", "post", "parameters"}

\* The sequences of distinct elements of S.
DistinctSeqs(S) ==
    UNION {{s \in [1..k -> S] : \A i, j \in 1..k : i # j => s[i] # s[j]} :
           k \in 0..Cardinality(S)}

Parameter(name, required) == [name |-> name, in |-> "query", required |-> required]

\* The text of a parameter name held as its ':'-separated pieces.
NameText(pieces) ==
    CASE pieces = <<"page">> -> "page"
      [] pieces = <<"id">> -> "id"
      [] pieces = <<"filter", "status">> -> "filter:status"

Operation(summary, description, parameters, responses) ==
    [t |-> "object", summary |-> summary, description |-> description,
     parameters |-> parameters, responses |-> responses]

\* The two operations of the documents that vary in structure.
OpA == Operation(JStr("List items"), JUndef, JUndef, JUndef)
OpB == Operation(JUndef, JUndef, JArr(<<Parameter(<<"page">>, TRUE)>>), JUndef)
StructOps == {OpA, OpB}

\* The values of a path item's reserved `parameters` key.
SharedParameters ==
    {JArr(<<Parameter(<<"id">>, TRUE)>>),
     JArr(<<Parameter(<<"id">>, TRUE), Parameter(<<"page">>, FALSE)>>)}

\* The path items with the keys ks, in that order.
ItemsWithKeys(ks) ==
    {JObj([i \in 1..Len(ks) |-> [key |-> ks[i], value |-> f[i]]]) :
       f \in {g \in [1..Len(ks) -> StructOps \cup SharedParameters] :
                \A i \in 1..Len(ks) :
                    (ks[i] = "parameters") <=> (g[i] \in SharedParameters)}}

\* The path items: one key at least.
Items == UNION {ItemsWithKeys(ks) : ks \in DistinctSeqs(MethodKeys) \ {<<>>}}

Document(paths) == [t |-> "object", paths |-> paths]

\* Number of method-mapping keys of a document.
RECURSIVE SumLen(_)
SumLen(entries) ==
    IF Len(entries) = 0 THEN 0 ELSE Len(Head(entries).value.v) + SumLen(Tail(entries))

Size(doc) == IF Truthy(doc) /\ Truthy(doc.paths) THEN SumLen(doc.paths.v) ELSE 0

RECURSIVE PathEntries(_, _)
\* The entries for the path keys ps, in that order, with n method-mapping
\* keys at most (every path item has one key at least).
PathEntries(ps, n) ==
    IF Len(ps) = 0 THEN {<<>>}
    ELSE UNION {{<<[key |-> Head(ps), value |-> it]>> \o rest :
                   rest \in PathEntries(Tail(ps), n - Len(it.v))} :
                it \in {x \in Items : Len(x.v) + Len(ps) - 1 <= n}}

\* The documents without paths, or with some of the path keys in some order
\* and MaxEntries method-mapping keys at most.
StructDocs ==
    {Document(JUndef)} \cup
    UNION {{Document(JObj(entries)) : entries \in PathEntries(ps, MaxEntries)} :
           ps \in DistinctSeqs(PathKeys)}

FileSize(file) == IF file.kind = "parsed" THEN Size(file.content) ELSE 0

StructFiles == {NoPath, Missing, Malformed} \cup {Parsed(d) : d \in StructDocs}

StructFilesUpTo == [n \in 0..MaxEntries |-> {f \in StructFiles : FileSize(f) <= n}]

\* The operations of the document pairs that vary in one operation's content.
Summaries == {JUndef, JStr("List items")}
Descriptions == {JUndef, JStr("Paged listing")}
ParameterLists ==
    {JUndef,
     JArr(<<Parameter(<<"page">>, TRUE)>>),
     JArr(<<Parameter(<<"page">>, FALSE)>>),
     JArr(<<Parameter(<<"filter", "status">>, TRUE)>>),   \* the name filter:status
     JObj(<<>>)}     \* not an array: an unexpected shape

Schema(properties, required) ==
    [t |-> "object",
     properties |-> JObj([i \in 1..Len(properties) |->
                            [key |-> properties[i], value |-> JObj(<<>>)]]),
     required |-> JArr(required)]

\* A responses map with one JSON response under the status code.
JsonResponses(statusCode, schema) ==
    JObj(<<[key |-> statusCode,
            value |-> [t |-> "object",
                       content |-> JObj(<<[key |-> "application/json",
                                           value |-> [t |-> "object",
                                                      schema |-> schema]]>>)]]>>)

ResponseMaps ==
    {JUndef,
     JsonResponses("200", Schema(<<"id", "name">>, <<"id">>)),
     JsonResponses("200", Schema(<<"id">>, <<>>))}

RichOps ==
    {Operation(s, d, p, r) :
       s \in Summaries, d \in Descriptions, p \in ParameterLists, r \in ResponseMaps}

\* A schema that is a reference: no properties and no required of its own.
RefSchema == [t |-> "object", ref |-> JStr("#/components/schemas/Item")]

\* The schema with the properties id and name, id required, where id is an
\* array of references: it differs from Schema(<<"id", "name">>, <<"id">>)
\* below the property names only.
NestedSchema ==
    [t |-> "object",
     properties |-> JObj(<<[key |-> "id",
                            value |-> JObj(<<[key |-> "type", value |-> JStr("array")],
                                             [key |-> "items", value |-> RefSchema]>>)],
                           [key |-> "name", value |-> JObj(<<>>)]>>),
     required |-> JArr(<<"id">>)]

Schemas == {Schema(<<"id", "name">>, <<"id">>), Schema(<<"id", "name">>, <<>>),
            Schema(<<"id">>, <<"id">>), NestedSchema, RefSchema}

\* A response: the schema under each content type and the bare schema field,
\* JUndef where there is none.
Response(json, xml, bare) ==
    [t |-> "object",
     content |-> JObj((IF json = JUndef THEN <<>>
                       ELSE <<[key |-> "application/json",
                               value |-> [t |-> "object", schema |-> json]]>>) \o
                      (IF xml = JUndef THEN <<>>
                       ELSE <<[key |-> "application/xml",
                               value |-> [t |-> "object", schema |-> xml]]>>)),
     schema |-> bare]

\* A response without a content field (Swagger 2), with a bare schema or none.
BareResponse(bare) == [t |-> "object", schema |-> bare]

Responses ==
    {Response(s, JUndef, JUndef) : s \in Schemas} \cup
    {Response(JUndef, Schema(<<"id">>, <<"id">>), JUndef),
     Response(Schema(<<"id", "name">>, <<"id">>), Schema(<<"id">>, <<>>), JUndef),
     Response(JUndef, JUndef, JUndef),
     BareResponse(Schema(<<"id", "name">>, <<"id">>)),
     BareResponse(Schema(<<"id">>, <<>>)),
     BareResponse(JUndef)}

StatusCodes == <<"200", "201", "404">>

\* The responses maps: one response under 200, or the same response under
\* some of the status codes, in ascending order (the key order of a parsed
\* object whose keys are numerals).
StatusMaps ==
    {JObj(<<[key |-> "200", value |-> r]>>) : r \in Responses} \cup
    {JObj(MapSeq(codes, LAMBDA c : [key |-> c, value |-> r])) :
       codes \in {<<"404">>, <<"200", "404">>, <<"200", "201">>, <<"200", "201", "404">>},
       r \in {Response(Schema(<<"id", "name">>, <<"id">>), JUndef, JUndef),
               Response(Schema(<<"id">>, <<>>), JUndef, JUndef)}}

\* The operations of the document pairs that vary in the responses alone.
ResponseOps == {Operation(JUndef, JUndef, JUndef, r) : r \in StatusMaps}

\* The document with the one operation GET /items.
OneOperation(op) ==
    Document(JObj(<<[key |-> "/items",
                     value |-> JObj(<<[key |-> "get", value |-> op]>>)]>>))

\* The operations without responses and with parameters that are an array
\* or absent.
PlainOps ==
    {Operation(s, d, p, JUndef) :
       s \in Summaries, d \in Descriptions, p \in ParameterLists \ {JObj(<<>>)}}

\* The document with the operations GET /items and POST /items.
TwoMethods(getOp, postOp) ==
    Document(JObj(<<[key |-> "/items",
                     value |-> JObj(<<[key |-> "get", value |-> getOp],
                                      [key |-> "post", value |-> postOp]>>)]>>))


-----------------------------------------------------------------------------
(* The single-pair run: new ChangeDetector(old, new), analyze(), saveReport() *)

\* No ChangeAnalyzer in this run.
NoAnalyzerRun ==
    /\ versions = JUndef
    /\ currentVersion = JUndef
    /\ prevVersionDir = JUndef
    /\ result = JUndef

\* The classes are used as a module: no script run of detect-changes.js.
NoScriptRun ==
    /\ argv = JUndef
    /\ exitCode = JUndef

\* No DynamicGroupChangeDetector in this run.
NoGroupRun ==
    /\ oldVersionDir = JUndef
    /\ newVersionDir = JUndef
    /\ ioFault = "none"
    /\ groups = JObj(<<>>)
    /\ groupedChanges = JObj(<<>>)
    /\ groupedReport = JUndef
    /\ legacyReport = JUndef

Init ==
    /\ \/ /\ oldFile \in StructFiles
          /\ newFile \in StructFilesUpTo[MaxEntries - FileSize(oldFile)]
       \/ \E a \in RichOps, b \in RichOps :
             /\ oldFile = Parsed(OneOperation(a))
             /\ newFile = Parsed(OneOperation(b))
       \/ \E a \in ResponseOps, b \in ResponseOps :
             /\ oldFile = Parsed(OneOperation(a))
             /\ newFile = Parsed(OneOperation(b))
       \/ \E a \in PlainOps, b \in PlainOps :
             /\ oldFile = Parsed(OneOperation(a))
             /\ newFile = Parsed(TwoMethods(b, OpA))
    /\ pc = "start"
    /\ oldSpec = JUndef
    /\ newSpec = JUndef
    /\ changes = JUndef
    /\ report = JUndef
    /\ NoGroupRun
    /\ NoAnalyzerRun
    /\ NoScriptRun

\* constructor(oldSpecPath, newSpecPath)
Construct ==
    /\ pc = "start"
    /\ LET o == loadSpec(oldFile)
           n == loadSpec(newFile)
       IN  IF o.threw \/ n.threw
           THEN /\ pc' = "loadthrew"
                /\ UNCHANGED <<oldSpec, newSpec, changes>>
           ELSE /\ pc' = "constructed"
                /\ oldSpec' = o.out
                /\ newSpec' = n.out
                /\ changes' = EmptyChanges
    /\ UNCHANGED <<oldFile, newFile, report, groupVars, callerVars>>

\* const changes = detector.analyze(): an uncaught throw ends the process.
Analyze ==
    /\ pc = "constructed"
    /\ \E r \in {analyze(oldSpec, newSpec, changes)} :
          /\ changes' = r.out
          /\ pc' = IF r.threw THEN "crashed" ELSE "analyzed"
    /\ UNCHANGED <<oldFile, newFile, oldSpec, newSpec, report, groupVars, callerVars>>

\* detector.saveReport(outputPath)
SaveReport ==
    /\ pc = "analyzed"
    /\ report' = saveReport(changes)
    /\ pc' = "saved"
    /\ UNCHANGED <<oldFile, newFile, oldSpec, newSpec, changes, groupVars, callerVars>>

Next == Construct \/ Analyze \/ SaveReport

Spec == Init /\ [][Next]_vars

\* A second detector.analyze() on the same ChangeDetector: the detections
\* push onto the lists of this.changes as the first call left them.
AnalyzeAgain ==
    /\ pc = "analyzed"
    /\ \E r \in {analyze(oldSpec, newSpec, changes)} :
          /\ changes' = r.out
          /\ pc' = IF r.threw THEN "crashed" ELSE "analyzedagain"
    /\ UNCHANGED <<oldFile, newFile, oldSpec, newSpec, report, groupVars, callerVars>>

NextAgain == Construct \/ Analyze \/ AnalyzeAgain

\* The single-pair run with analyze() called twice.
SpecAgain == Init /\ [][NextAgain]_vars

-----------------------------------------------------------------------------
(* calculateRiskLevel on change sets of every size *)

\* Bound: records of one category in a change set given by its counts.
MaxCount == 12

\* A change set as the three detections leave it, with the given numbers of
\* breaking, new and modified records.
ChangesWithCounts(b, n, m) ==
    [breaking |-> [i \in 1..b |-> RemovedRecord("METHOD_REMOVED", "/items", "get")],
     newEndpoints |-> [i \in 1..n |-> [path |-> "/items", method |-> "POST",
                                         summary |-> JStr("No summary")]],
     modifiedEndpoints |-> [i \in 1..m |-> [path |-> "/items", method |-> "GET",
                                              changes |-> <<"Summary updated">>]],
     summary |-> [breakingChanges |-> b, newEndpoints |-> n,
                  modifiedEndpoints |-> m, riskLevel |-> "low"]]

InitRisk ==
    /\ oldFile = Missing
    /\ newFile = Missing
    /\ pc = "counted"
    /\ oldSpec = JUndef
    /\ newSpec = JUndef
    /\ \E b \in 0..MaxCount, m \in 0..MaxCount : changes = ChangesWithCounts(b, 0, m)
    /\ report = JUndef
    /\ NoGroupRun
    /\ NoAnalyzerRun
    /\ NoScriptRun

\* this.calculateRiskLevel(), the last step of analyze()
CalculateRiskLevel ==
    /\ pc = "counted"
    /\ changes' = calculateRiskLevel(changes)
    /\ pc' = "classified"
    /\ UNCHANGED <<oldFile, newFile, oldSpec, newSpec, report, groupVars, callerVars>>

NextRisk == CalculateRiskLevel

SpecRisk == InitRisk /\ [][NextRisk]_vars

-----------------------------------------------------------------------------
(* The grouped run: new DynamicGroupChangeDetector(oldDir, newDir),          *)
(* analyzeAllGroups(), saveGroupedReport()                                   *)

ReadmeMd == FileName("", "README", "md")
AllJson == FileName("apiDocs-", "all", "json")
AllYaml == FileName("apiDocs-", "all", "yaml")
ApiJson == FileName("apiDocs-", "api", "json")
InternalJson == FileName("apiDocs-", "internal", "json")
TwoJson == FileName("apiDocs-", "2", "json")
TenJson == FileName("apiDocs-", "10", "json")

\* An operation whose parameters are not an array: an unexpected shape.
OpUnexpected == Operation(JUndef, JUndef, JObj(<<>>), JUndef)

\* The document with the operations GET /items and GET /users.
TwoPaths ==
    Document(JObj(<<[key |-> "/items", value |-> JObj(<<[key |-> "get", value |-> OpA]>>)],
                    [key |-> "/users", value |-> JObj(<<[key |-> "get", value |-> OpA]>>)]>>))

\* The file is not in the directory.
Absent == [kind |-> "absent"]

OldContents == {Malformed, Parsed(OneOperation(OpA)), Parsed(TwoPaths)}
NewContents ==
    OldContents \cup {Parsed(OneOperation(OpB)), Parsed(OneOperation(OpUnexpected))}

\* What each file of the new directory can be.
NewChoices ==
    {c \in [{ReadmeMd, AllJson, AllYaml, ApiJson} -> NewContents \cup {Absent}] :
       /\ c[ReadmeMd] = Malformed
       /\ c[AllYaml] \in {Absent, Parsed(OneOperation(OpA))}}

\* What each file of the old directory can be.
OldChoices == [{AllJson, ApiJson} -> OldContents \cup {Absent}]

\* The orders in which readdirSync lists the files of the new directory.
NewOrders == {<<ReadmeMd, AllJson, AllYaml, ApiJson>>, <<ReadmeMd, AllYaml, AllJson, ApiJson>>}

\* The listing of a directory: the files that are there, in the order given.
Listing(order, c) ==
    MapSeq(SelectSeq(order, LAMBDA f : c[f] # Absent),
           LAMBDA f : [file |-> f, content |-> c[f]])

NewDirs == {NoDir} \cup {Dir(Listing(o, c)) : o \in NewOrders, c \in NewChoices}
OldDirs == {NullDir, NoDir} \cup {Dir(Listing(<<AllJson, ApiJson>>, c)) : c \in OldChoices}

\* Directories without a group all: the groups api and internal.
NewDirsWithoutAll ==
    {Dir(Listing(<<ReadmeMd, ApiJson, InternalJson>>, c)) :
       c \in {d \in [{ReadmeMd, ApiJson, InternalJson} -> NewContents] :
                /\ d[ReadmeMd] = Malformed
                /\ d[ApiJson] # Malformed
                /\ d[InternalJson] \in {Parsed(OneOperation(OpA)), Parsed(TwoPaths)}}}

OldDirsWithoutAll ==
    {Dir(Listing(<<ApiJson, InternalJson>>, c)) :
       c \in [{ApiJson, InternalJson} -> {Absent, Parsed(TwoPaths)}]}

\* Directories with groups named by numerals: the groups 10, 2 and all.
NewDirsNumbered ==
    {Dir(Listing(<<AllJson, TenJson, TwoJson>>, c)) :
       c \in [{AllJson, TenJson, TwoJson} ->
                {Absent, Parsed(OneOperation(OpA)), Parsed(OneOperation(OpUnexpected))}]}

OldDirsNumbered ==
    {NoDir,
     Dir(Listing(<<TenJson, TwoJson>>, [f \in {TenJson, TwoJson} |-> Parsed(TwoPaths)]))}

\* No single-pair run of its own in this run.
NoPairRun ==
    /\ oldFile = NoPath
    /\ newFile = NoPath
    /\ oldSpec = JUndef
    /\ newSpec = JUndef
    /\ changes = JUndef
    /\ report = JUndef

\* constructor(oldVersionDir, newVersionDir)
InitGroups ==
    /\ \/ /\ oldVersionDir \in OldDirs
          /\ newVersionDir \in NewDirs
       \/ /\ oldVersionDir \in OldDirsWithoutAll
          /\ newVersionDir \in NewDirsWithoutAll
       \/ /\ oldVersionDir \in OldDirsNumbered
          /\ newVersionDir \in NewDirsNumbered
    /\ pc = "created"
    /\ ioFault = "none"
    /\ groups = JObj(<<>>)
    /\ groupedChanges = JObj(<<>>)
    /\ groupedReport = JUndef
    /\ legacyReport = JUndef
    /\ NoPairRun
    /\ NoAnalyzerRun
    /\ NoScriptRun

\* detector.analyzeAllGroups(): an uncaught throw ends the process.
AnalyzeAllGroups ==
    /\ pc = "created"
    /\ \E r \in {analyzeAllGroups(groups, groupedChanges, oldVersionDir, newVersionDir)} :
          /\ groups' = r.out.groups
          /\ groupedChanges' = r.out.groupedChanges
          /\ pc' = IF r.threw THEN "groupsthrew" ELSE "groupsanalyzed"
    /\ UNCHANGED <<pairVars, oldVersionDir, newVersionDir, ioFault, groupedReport,
                   legacyReport, callerVars>>

\* detector.saveGroupedReport(outputPath).  Either write can fail: the first
\* leaves no report, the second leaves the grouped report alone.
SaveGroupedReport ==
    /\ pc = "groupsanalyzed"
    /\ \E fault \in {"none", "grouped", "legacy"},
          r \in {generateGroupedReport(groupedChanges)} :
          /\ ioFault' = fault
          /\ groupedReport' = IF fault = "grouped" THEN JUndef ELSE r
          /\ legacyReport' =
                IF fault = "none" THEN generateLegacyCompatibleReport(groupedChanges, r)
                ELSE JUndef
          /\ pc' = IF fault = "none" THEN "groupssaved" ELSE "savethrew"
    /\ UNCHANGED <<pairVars, oldVersionDir, newVersionDir, groups, groupedChanges,
                   callerVars>>

NextGroups == AnalyzeAllGroups \/ SaveGroupedReport

\* Both detectors: a run is a single-pair run or a grouped run.
InitDetectors == Init \/ InitGroups

NextDetectors == Next \/ NextGroups

SpecDetectors == InitDetectors /\ [][NextDetectors]_vars

-----------------------------------------------------------------------------
(* saveGroupedReport on grouped change sets of every size *)

\* Bounds: breaking and modified records of one group given by its counts.
MaxGroupBreaking == 6
MaxGroupModified == 11

\* The entry of a group, found in both directories, whose analysis left the
\* given numbers of breaking and modified records.
EntryWithCounts(file, b, m) ==
    GroupEntry(GroupOf(ScannedFile("new", file), <<ScannedFile("old", file)>>),
               calculateRiskLevel(ChangesWithCounts(b, 0, m)))

\* The groups all and api analysed; the documents behind the counts are not
\* represented.
InitTotals ==
    /\ oldVersionDir = Dir(<<>>)
    /\ newVersionDir = Dir(<<>>)
    /\ pc = "groupsanalyzed"
    /\ ioFault = "none"
    /\ groups = JObj(<<>>)
    /\ \E b1, b2 \in 0..MaxGroupBreaking, m1, m2 \in 0..MaxGroupModified :
          groupedChanges = JObj(<<[key |-> "all", value |-> EntryWithCounts(AllJson, b1, m1)],
                                  [key |-> "api", value |-> EntryWithCounts(ApiJson, b2, m2)]>>)
    /\ groupedReport = JUndef
    /\ legacyReport = JUndef
    /\ NoPairRun
    /\ NoAnalyzerRun
    /\ NoScriptRun

NextTotals == SaveGroupedReport

SpecTotals == InitTotals /\ [][NextTotals]_vars

-----------------------------------------------------------------------------
(* detect-changes.js run as a script: node detect-changes.js <old-spec>      *)
(* <new-spec> [output-file]                                                  *)

\* What the two document arguments can denote.
ScriptFiles ==
    {Missing, Malformed} \cup
    {Parsed(OneOperation(op)) :
       op \in {OpA, OpB, OpUnexpected,
               Operation(JStr("List items"), JUndef,
                         JArr(<<Parameter(<<"page">>, TRUE)>>), JUndef)}}

\* The output-file argument.
OutputPath == [kind |-> "output"]

\* process.argv.slice(2): no argument, one document, two documents, or two
\* documents and the output file.
ScriptArguments ==
    {<<>>} \cup {<<a>> : a \in ScriptFiles}
           \cup {<<a, b>> : a \in ScriptFiles, b \in ScriptFiles}
           \cup {<<a, b, OutputPath>> : a \in ScriptFiles, b \in ScriptFiles}

InitScript ==
    /\ argv \in ScriptArguments
    /\ exitCode = JUndef
    /\ pc = "script"
    /\ NoPairRun
    /\ NoGroupRun
    /\ NoAnalyzerRun

\* const args = process.argv.slice(2); the usage check; the destructuring.
ReadArguments ==
    /\ pc = "script"
    /\ IF Len(argv) < 2
       THEN /\ exitCode' = JNum(1)
            /\ pc' = "exited"
            /\ UNCHANGED <<oldFile, newFile>>
       ELSE /\ oldFile' = argv[1]
            /\ newFile' = argv[2]
            /\ pc' = "start"
            /\ UNCHANGED exitCode
    /\ UNCHANGED <<oldSpec, newSpec, changes, report, groupVars, versions,
                   currentVersion, prevVersionDir, result, argv>>

\* FinishScript with the report saved in every run.
FinishScriptAlwaysSaves ==
    /\ pc = "analyzed"
    /\ argv # JUndef
    /\ report' = saveReport(changes)
    /\ exitCode' = JNum(0)
    /\ pc' = "exited"
    /\ UNCHANGED <<oldFile, newFile, oldSpec, newSpec, changes, groupVars, versions,
                   currentVersion, prevVersionDir, result, argv>>

\* detector.generateReport(); if (outputPath) detector.saveReport(outputPath);
\* and the script ends.
FinishScript ==
    /\ pc = "analyzed"
    /\ argv # JUndef
    /\ report' = IF Len(argv) >= 3 THEN saveReport(changes) ELSE report
    /\ exitCode' = JNum(0)
    /\ pc' = "exited"
    /\ UNCHANGED <<oldFile, newFile, oldSpec, newSpec, changes, groupVars, versions,
                   currentVersion, prevVersionDir, result, argv>>

\* An exception nothing catches ends the process with exit code 1.
UncaughtException ==
    /\ pc \in {"loadthrew", "crashed"}
    /\ argv # JUndef
    /\ exitCode' = JNum(1)
    /\ pc' = "exited"
    /\ UNCHANGED <<pairVars, groupVars, versions, currentVersion, prevVersionDir,
                   result, argv>>

NextScript == ReadArguments \/ Construct \/ Analyze \/ FinishScript \/ UncaughtException

SpecScript == InitScript /\ [][NextScript]_vars

-----------------------------------------------------------------------------
(* ChangeAnalyzer: scripts/detect-and-analyze-changes.js *)

\* A version directory name (a non-empty string) in the pieces compareVersions
\* looks at: whether it starts with v, and the '.'-separated pieces behind it.
VersionName(prefixed, parts) == [t |-> "version", prefixed |-> prefixed, parts |-> parts]

\* parseInt(num) || 0 on the pieces of the model: a piece that is no numeral
\* gives NaN, and NaN and 0 both give 0.
ParseIntOrZero(num) ==
    CASE num = "1" -> 1
      [] num = "2" -> 2
      [] num = "10" -> 10
      [] OTHER -> 0

\* parseVersion(version): the leading v is dropped, the pieces are parsed.
parseVersion(version) == [i \in 1..Len(version.parts) |-> ParseIntOrZero(version.parts[i])]

\* parts[i] || 0
PartAt(parts, i) == IF i <= Len(parts) THEN parts[i] ELSE 0

\* compareVersions(a, b)
compareVersions(a, b) ==
    LET aParts == parseVersion(a)
        bParts == parseVersion(b)
        maxLength == IF Len(aParts) > Len(bParts) THEN Len(aParts) ELSE Len(bParts)
        differing == {i \in 1..maxLength : PartAt(aParts, i) # PartAt(bParts, i)}
    IN  IF differing = {} THEN 0
        ELSE LET i == CHOOSE k \in differing : \A j \in differing : k <= j
             IN  PartAt(aParts, i) - PartAt(bParts, i)

\* One step of the stable sort by version: v goes behind every name that
\* does not compare greater.
InsertByVersion(sorted, v) ==
    LET k == Cardinality({i \in 1..Len(sorted) : compareVersions(sorted[i], v) <= 0})
    IN  SubSeq(sorted, 1, k) \o <<v>> \o SubSeq(sorted, k + 1, Len(sorted))

RECURSIVE SortByVersion(_)
\* .sort(this.compareVersions.bind(this))
SortByVersion(vs) ==
    IF Len(vs) = 0 THEN <<>>
    ELSE InsertByVersion(SortByVersion(SubSeq(vs, 1, Len(vs) - 1)), vs[Len(vs)])

\* .reverse()
Reverse(s) == [i \in 1..Len(s) |-> s[Len(s) + 1 - i]]

\* fsSync.existsSync(path.join(directory, file))
ExistsIn(directory, file) ==
    /\ directory.kind = "dir"
    /\ \E i \in 1..Len(directory.files) : directory.files[i].file = file

\* findNewSpec(): the path of the main spec of specDir; it throws when there
\* is none (and readdir throws when there is no specDir).
findNewSpec(specDir) ==
    IF ExistsIn(specDir, AllYaml) THEN Returned(PathJoin("new", AllYaml))
    ELSE IF ExistsIn(specDir, AllJson) THEN Returned(PathJoin("new", AllJson))
    ELSE IF specDir.kind = "dir"
         THEN Threw(JStr("No apiDocs-all.yaml or apiDocs-all.json found"))
         ELSE Threw(JStr("ENOENT: no such file or directory, scandir"))

\* The directory of a version under services/<service>/versions.
VersionDirAt(vs, version) ==
    vs.files[CHOOSE i \in 1..Len(vs.files) : vs.files[i].name = version].content

\* findPreviousVersion without the .reverse(): the oldest version first.
findPreviousVersionOldestFirst(vs, current) ==
    IF vs.kind # "dir" THEN JNull
    ELSE LET names == MapSeq(SelectSeq(vs.files, LAMBDA dirent : dirent.isDirectory),
                             LAMBDA dirent : dirent.name)
             sorted == SortByVersion(names)
             versionDirs == IF Truthy(current)
                            THEN SelectSeq(sorted, LAMBDA v : v # current)
                            ELSE sorted
             withSpec == SelectSeq(versionDirs,
                                   LAMBDA v : \/ ExistsIn(VersionDirAt(vs, v), AllYaml)
                                              \/ ExistsIn(VersionDirAt(vs, v), AllJson))
         IN  IF Len(withSpec) = 0 THEN JNull ELSE Head(withSpec)

\* findPreviousVersion(currentVersion): the name of the version directory it
\* returns, or null.  vs is what services/<service>/versions denotes.
findPreviousVersion(vs, current) ==
    IF vs.kind # "dir" THEN JNull
    ELSE LET names == MapSeq(SelectSeq(vs.files, LAMBDA dirent : dirent.isDirectory),
                             LAMBDA dirent : dirent.name)
             sorted == Reverse(SortByVersion(names))
             versionDirs == IF Truthy(current)
                            THEN SelectSeq(sorted, LAMBDA v : v # current)
                            ELSE sorted
             withSpec == SelectSeq(versionDirs,
                                   LAMBDA v : \/ ExistsIn(VersionDirAt(vs, v), AllYaml)
                                              \/ ExistsIn(VersionDirAt(vs, v), AllJson))
         IN  IF Len(versionDirs) = 0 THEN JNull
             ELSE IF Len(withSpec) = 0 THEN JNull
             ELSE Head(withSpec)

\* The report createFirstVersionReport() writes; generatedAt, a clock
\* reading, is left out.
createFirstVersionReport ==
    [summary |-> [breakingChanges |-> JNum(0),
                  newEndpoints |-> JStr("unknown"),
                  modifiedEndpoints |-> JNum(0),
                  riskLevel |-> JStr("low")],
     changes |-> [breaking |-> <<>>, newEndpoints |-> <<>>, modifiedEndpoints |-> <<>>],
     note |-> JStr("First version - no previous version to compare")]

\* The report createErrorReport(error) writes.
createErrorReport(message) ==
    [summary |-> [breakingChanges |-> JNum(0),
                  newEndpoints |-> JNum(0),
                  modifiedEndpoints |-> JNum(0),
                  riskLevel |-> JStr("unknown")],
     changes |-> [breaking |-> <<>>, newEndpoints |-> <<>>, modifiedEndpoints |-> <<>>],
     error |-> message,
     note |-> JStr("Change detection failed - see error field for details")]

\* Bound: the entries of services/<service>/versions.
MaxVersions == 2

\* The names v1.2.0, v1.10.0, 1.2 (which compares equal to v1.2.0) and latest
\* (whose one piece is no numeral).
VersionNames ==
    {VersionName(TRUE, <<"1", "2", "0">>), VersionName(TRUE, <<"1", "10", "0">>),
     VersionName(FALSE, <<"1", "2">>), VersionName(FALSE, <<"latest">>)}

\* What an entry of the versions directory can be: a plain file, or a version
\* directory with the api group alone, with apiDocs-all.json or with
\* apiDocs-all.yaml.
VersionContents ==
    {JUndef,
     Dir(<<[file |-> ApiJson, content |-> Parsed(TwoPaths)]>>),
     Dir(<<[file |-> AllJson, content |-> Parsed(OneOperation(OpA))]>>),
     Dir(<<[file |-> AllYaml, content |-> Parsed(TwoPaths)]>>)}

Dirent(name, content) ==
    [name |-> name, isDirectory |-> content # JUndef, content |-> content]

\* What services/<service>/versions can denote: no directory, or the listing
\* readdir returns.
VersionsDirs ==
    {NoDir} \cup
    {Dir([i \in 1..Len(names) |-> Dirent(names[i], c[i])]) :
       names \in {n \in DistinctSeqs(VersionNames) : Len(n) <= MaxVersions},
       c \in [1..MaxVersions -> VersionContents]}

\* What specDir can denote.
SpecDirs ==
    {NoDir,
     Dir(<<[file |-> ApiJson, content |-> Parsed(OneOperation(OpB))]>>),
     Dir(<<[file |-> AllJson, content |-> Parsed(OneOperation(OpB))]>>),
     Dir(<<[file |-> AllYaml, content |-> Parsed(OneOperation(OpA))],
           [file |-> ApiJson, content |-> Parsed(OneOperation(OpUnexpected))]>>)}

\* new ChangeAnalyzer(serviceName, specDir, targetDir)
InitAnalyzer ==
    /\ versions \in VersionsDirs
    /\ currentVersion \in VersionNames
    /\ newVersionDir \in SpecDirs
    /\ oldVersionDir = JUndef
    /\ prevVersionDir = JUndef
    /\ result = JUndef
    /\ pc = "analyzer"
    /\ ioFault = "none"
    /\ groups = JObj(<<>>)
    /\ groupedChanges = JObj(<<>>)
    /\ groupedReport = JUndef
    /\ legacyReport = JUndef
    /\ NoPairRun
    /\ NoScriptRun

\* analyze(), to the end of findNewSpec(): its throw leaves analyze().
FindNewSpec ==
    /\ pc = "analyzer"
    /\ \E r \in {findNewSpec(newVersionDir)} :
          IF r.threw
          THEN result' = r /\ pc' = "analyzethrew"
          ELSE result' = result /\ pc' = "newspecfound"
    /\ UNCHANGED <<pairVars, groupVars, versions, currentVersion, prevVersionDir,
                   argv, exitCode>>

\* analyze(), from findPreviousVersion(currentVersion) to the branch on its
\* result; with a previous version, to the constructor of the detector.
FindPreviousVersion ==
    /\ pc = "newspecfound"
    /\ \E prev \in {findPreviousVersion(versions, currentVersion)} :
          /\ prevVersionDir' = prev
          /\ IF ~Truthy(prev)
             THEN /\ pc' = "firstversion"
                  /\ UNCHANGED oldVersionDir
             ELSE /\ pc' = "created"
                  /\ oldVersionDir' = VersionDirAt(versions, prev)
    /\ UNCHANGED <<pairVars, newVersionDir, ioFault, groups, groupedChanges,
                   groupedReport, legacyReport, versions, currentVersion, result,
                   argv, exitCode>>

\* await this.createFirstVersionReport(); return { isFirstVersion: true }
CreateFirstVersionReport ==
    /\ pc = "firstversion"
    /\ legacyReport' = createFirstVersionReport
    /\ result' = Returned([isFirstVersion |-> TRUE])
    /\ pc' = "analyzerdone"
    /\ UNCHANGED <<pairVars, oldVersionDir, newVersionDir, ioFault, groups,
                   groupedChanges, groupedReport, versions, currentVersion,
                   prevVersionDir, argv, exitCode>>

\* runChangeDetection, the return at the end of its try.
ReturnGroupedChanges ==
    /\ pc = "groupssaved"
    /\ currentVersion # JUndef
    /\ result' = Returned([isFirstVersion |-> FALSE, groupedChanges |-> groupedChanges])
    /\ pc' = "analyzerdone"
    /\ UNCHANGED <<pairVars, groupVars, versions, currentVersion, prevVersionDir,
                   argv, exitCode>>

\* error.message of what the detector threw.
ErrorMessage ==
    IF pc = "groupsthrew" THEN JStr("oldGroups.find is not a function")
    ELSE JStr("ENOSPC: no space left on device, write")

\* The catch without createErrorReport(error): throw error alone.
CreateErrorReportNotWritten ==
    /\ pc \in {"groupsthrew", "savethrew"}
    /\ currentVersion # JUndef
    /\ result' = Threw(ErrorMessage)
    /\ pc' = "analyzerdone"
    /\ UNCHANGED <<pairVars, groupVars, versions, currentVersion, prevVersionDir,
                   argv, exitCode>>

\* runChangeDetection, its catch: createErrorReport(error), then throw error.
CreateErrorReport ==
    /\ pc \in {"groupsthrew", "savethrew"}
    /\ currentVersion # JUndef
    /\ legacyReport' = createErrorReport(ErrorMessage)
    /\ result' = Threw(ErrorMessage)
    /\ pc' = "analyzerdone"
    /\ UNCHANGED <<pairVars, oldVersionDir, newVersionDir, ioFault, groups,
                   groupedChanges, groupedReport, versions, currentVersion,
                   prevVersionDir, argv, exitCode>>

NextAnalyzer ==
    \/ FindNewSpec
    \/ FindPreviousVersion
    \/ CreateFirstVersionReport
    \/ AnalyzeAllGroups
    \/ SaveGroupedReport
    \/ ReturnGroupedChanges
    \/ CreateErrorReport

SpecAnalyzer == InitAnalyzer /\ [][NextAnalyzer]_vars

-----------------------------------------------------------------------------
(* Properties of the single-pair run *)

Range(s) == {s[i] : i \in 1..Len(s)}

BothPresent == Truthy(oldSpec) /\ Truthy(newSpec)

\* The path keys of a loaded document.
PathKeysOf(spec) == Range(Keys(PathsOf(spec)))

\* The operations of a loaded document: (path, method key), the reserved key
\* excluded.
OperationsOf(spec) ==
    {e \in PathKeys \X (MethodKeys \ {"parameters"}) :
       /\ e[1] \in PathKeysOf(spec)
       /\ e[2] \in Range(Keys(Get(PathsOf(spec), e[1])))}

\* The records as (path, METHOD) pairs.
Named(records) == {<<r.path, r.method>> : r \in Range(records)}
UpperCased(ops) == {<<e[1], ToUpperCase(e[2])>> : e \in ops}
OfType(records, type) == SelectSeq(records, LAMBDA r : r.type = type)

\* C1: the change set analyze() returns has summary.breakingChanges,
\* summary.newEndpoints and summary.modifiedEndpoints equal to the lengths of
\* its breaking, newEndpoints and modifiedEndpoints lists, on the
\* short-circuit path and after the three detections alike.
C1_SummaryCountsAreLengths ==
    pc \in {"analyzed", "saved"} =>
        /\ changes.summary.breakingChanges = Len(changes.breaking)
        /\ changes.summary.newEndpoints = Len(changes.newEndpoints)
        /\ changes.summary.modifiedEndpoints = Len(changes.modifiedEndpoints)

C1_Witness ==
    /\ pc = "analyzed"
    /\ BothPresent
    /\ Len(changes.breaking) > 0
    /\ Len(changes.newEndpoints) > 0
    /\ Len(changes.modifiedEndpoints) > 0

\* C3: when the old and the new document are identical, analyze() returns
\* empty breaking, newEndpoints and modifiedEndpoints lists, zero counts and
\* riskLevel low.
C3_IdenticalDocumentsGiveNoChanges ==
    (pc = "analyzed" /\ BothPresent /\ oldSpec = newSpec) => changes = EmptyChanges

C3_Witness ==
    /\ pc = "analyzed"
    /\ oldSpec = newSpec
    /\ oldSpec = OneOperation(Operation(JStr("List items"), JStr("Paged listing"),
                                        JArr(<<Parameter(<<"page">>, TRUE)>>),
                                        JsonResponses("200", Schema(<<"id", "name">>, <<"id">>))))

AbsentFile(file) == file.kind \in {"nopath", "missing", "malformed"}

\* C8: loadSpec never throws to the constructor; it returns null when the
\* file does not exist, when its content cannot be parsed and when the path
\* is null, the same value in the three cases.
C8_LoadSpecReturnsNullAndNeverThrows ==
    /\ pc # "loadthrew"
    /\ pc # "start" =>
          /\ AbsentFile(oldFile) => oldSpec = JNull
          /\ AbsentFile(newFile) => newSpec = JNull

C8_Witness ==
    /\ pc = "constructed"
    /\ oldFile.kind = "malformed"
    /\ newFile.kind = "missing"
    /\ oldSpec = newSpec

\* C9: for two present documents, newEndpoints holds exactly one record for
\* each operation (path, method) of new, the reserved key excluded, whose path
\* is not a path of old or whose method is not a method of old on that path,
\* and no other record.
C9_NewEndpointsAreExactlyTheNewOperations ==
    (pc = "analyzed" /\ BothPresent) =>
        LET expected == OperationsOf(newSpec) \ OperationsOf(oldSpec)
        IN  /\ Named(changes.newEndpoints) = UpperCased(expected)
            /\ Len(changes.newEndpoints) = Cardinality(expected)

C9_Witness ==
    /\ pc = "analyzed"
    /\ BothPresent
    /\ \E r \in Range(changes.newEndpoints) : r.path \in PathKeysOf(oldSpec)
    /\ \E r \in Range(changes.newEndpoints) : r.path \notin PathKeysOf(oldSpec)

\* C10: for two present documents, every method of a path that only old has
\* gives exactly one ENDPOINT_REMOVED record, every method of old missing from
\* a path that new still has gives exactly one METHOD_REMOVED record, and no
\* removal record names an operation that new has.
C10_RemovalRecordsAreExactlyTheRemovedOperations ==
    (pc = "analyzed" /\ BothPresent) =>
        LET gone == OperationsOf(oldSpec) \ OperationsOf(newSpec)
            withPath == {e \in gone : e[1] \notin PathKeysOf(newSpec)}
            withoutMethod == {e \in gone : e[1] \in PathKeysOf(newSpec)}
            endpointRemoved == OfType(changes.breaking, "ENDPOINT_REMOVED")
            methodRemoved == OfType(changes.breaking, "METHOD_REMOVED")
        IN  /\ Named(endpointRemoved) = UpperCased(withPath)
            /\ Len(endpointRemoved) = Cardinality(withPath)
            /\ Named(methodRemoved) = UpperCased(withoutMethod)
            /\ Len(methodRemoved) = Cardinality(withoutMethod)

C10_Witness ==
    /\ pc = "analyzed"
    /\ BothPresent
    /\ "/items" \notin PathKeysOf(newSpec)
    /\ OfType(changes.breaking, "ENDPOINT_REMOVED") =
          <<RemovedRecord("ENDPOINT_REMOVED", "/items", "get"),
            RemovedRecord("ENDPOINT_REMOVED", "/items", "post")>>

\* C4: the per-group risk level is critical when breaking > 5, otherwise high
\* when breaking > 2, otherwise medium when breaking > 0 or modified > 10,
\* otherwise low.
C4_PerGroupRiskLevel ==
    pc = "classified" =>
        LET b == changes.summary.breakingChanges
            m == changes.summary.modifiedEndpoints
            level == changes.summary.riskLevel
        IN  /\ b > 5 => level = "critical"
            /\ (b > 2 /\ b <= 5) => level = "high"
            /\ (b <= 2 /\ (b > 0 \/ m > 10)) => level = "medium"
            /\ (b = 0 /\ m <= 10) => level = "low"
            /\ b = 6 => level = "critical"
            /\ b = 3 => level = "high"
            /\ (b = 1 /\ m = 0) => level = "medium"
            /\ (b = 0 /\ m = 11) => level = "medium"
            /\ (b = 0 /\ m = 0) => level = "low"

C4_Witness ==
    /\ pc = "classified"
    /\ changes.summary.breakingChanges = 0
    /\ changes.summary.modifiedEndpoints = 11
    /\ changes.summary.riskLevel = "medium"

-----------------------------------------------------------------------------
(* Properties of the two detectors *)

\* The entries of this.groupedChanges.
GroupEntries == {groupedChanges.v[i] : i \in 1..Len(groupedChanges.v)}

\* The file a group's path names; a null path names none.
GroupFile(path) == FileAt(path, oldVersionDir, newVersionDir)

\* An empty change set: no records, counts 0, riskLevel low.
EmptyLow(cs) ==
    /\ cs.breaking = <<>>
    /\ cs.newEndpoints = <<>>
    /\ cs.modifiedEndpoints = <<>>
    /\ cs.summary = [breakingChanges |-> 0, newEndpoints |-> 0,
                     modifiedEndpoints |-> 0, riskLevel |-> "low"]

HasError(entry) == "error" \in DOMAIN entry.groupInfo

\* C7: when the old or the new document is absent, analyze() does not throw
\* and returns an empty change set with counts 0 and riskLevel low; a group
\* whose oldPath is null, or one of whose files loads as absent, has such an
\* entry, without groupInfo.error.
C7_AbsentSideGivesEmptyLowChangeSet ==
    /\ pc = "crashed" => BothPresent
    /\ (pc \in {"analyzed", "saved"} /\ ~BothPresent) => EmptyLow(changes)
    /\ \A e \in GroupEntries :
          LET group == Get(groups, e.key)
          IN  (\/ group.oldPath = JNull
               \/ AbsentFile(GroupFile(group.oldPath))
               \/ AbsentFile(GroupFile(group.newPath)))
              => (EmptyLow(e.value) /\ ~HasError(e.value))

C7_Witness ==
    /\ pc = "groupsanalyzed"
    /\ Keys(groupedChanges) = <<"all", "api">>
    /\ Get(groups, "api").oldPath = JNull
    /\ GroupFile(Get(groups, "api").newPath) = Parsed(TwoPaths)
    /\ EmptyLow(Get(groupedChanges, "api"))
    /\ Get(groupedChanges, "api").groupInfo.hasOldVersion = FALSE
    /\ Len(Get(groupedChanges, "all").breaking) > 0

\* The per-group classification of the two counts.
PerGroupLevel(breaking, modified) ==
    CASE breaking > 5 -> "critical"
      [] breaking \in 3..5 -> "high"
      [] breaking \in 1..2 \/ (breaking = 0 /\ modified > 10) -> "medium"
      [] OTHER -> "low"

Classified(summary) ==
    summary.riskLevel = PerGroupLevel(summary.breakingChanges, summary.modifiedEndpoints)

\* C6 as claimed: in every change set returned by analyze() and in every
\* group entry of a grouped report, riskLevel is the per-group classification
\* of the entry's breakingChanges and modifiedEndpoints counts.
C6_EveryEntryIsClassifiedByItsCounts ==
    /\ pc \in {"analyzed", "saved"} => Classified(changes.summary)
    /\ groupedReport # JUndef =>
          \A i \in 1..Len(groupedReport.groups.v) :
              Classified(groupedReport.groups.v[i].value.summary)

\* C6 as amended: in every change set returned by analyze() and in every
\* group entry of a grouped report whose analysis did not throw, riskLevel is
\* the per-group classification of the entry's counts; an entry whose
\* analysis threw has counts 0 and riskLevel unknown.
C6_AnalysedEntriesAreClassifiedByTheirCounts ==
    /\ pc \in {"analyzed", "saved"} => Classified(changes.summary)
    /\ groupedReport # JUndef =>
          \A i \in 1..Len(groupedReport.groups.v) :
              LET entry == groupedReport.groups.v[i].value
              IN  IF HasError(entry)
                  THEN entry.summary = [breakingChanges |-> 0, newEndpoints |-> 0,
                                        modifiedEndpoints |-> 0, riskLevel |-> "unknown"]
                  ELSE Classified(entry.summary)

C6_Witness ==
    /\ pc = "groupssaved"
    /\ Keys(groupedReport.groups) = <<"all", "api">>
    /\ HasError(Get(groupedReport.groups, "api"))
    /\ ~HasError(Get(groupedReport.groups, "all"))
    /\ Get(groupedReport.groups, "all").summary.breakingChanges = 1
    /\ Get(groupedReport.groups, "all").summary.riskLevel = "medium"

\* summary.X === changes.X.length for the three categories of a written
\* report.
SummaryCountsLists(written) ==
    /\ Field(written.summary, "breakingChanges") = JNum(Len(written.changes.breaking))
    /\ Field(written.summary, "newEndpoints") = JNum(Len(written.changes.newEndpoints))
    /\ Field(written.summary, "modifiedEndpoints")
          = JNum(Len(written.changes.modifiedEndpoints))

\* C2: in every report that is written, the single-pair report of saveReport
\* and the legacy report built from the `all` group or as the union of the
\* groups, summary.X === changes.X.length for X in breakingChanges/breaking,
\* newEndpoints and modifiedEndpoints.
C2_WrittenReportsCountTheirLists ==
    /\ report # JUndef => SummaryCountsLists(report)
    /\ legacyReport # JUndef => SummaryCountsLists(legacyReport)

\* C5: the aggregate risk level of a grouped report is critical when
\* totalBreakingChanges > 10, otherwise high when it is > 5, otherwise medium
\* when it is > 0 or totalModifiedEndpoints > 20, otherwise low, the totals
\* being the sums of the groups' counts; these are not the per-group
\* thresholds.
C5_AggregateRiskLevel ==
    groupedReport # JUndef =>
        LET entries == groupedReport.groups.v
            b == SumOf(entries, "breakingChanges")
            m == SumOf(entries, "modifiedEndpoints")
            level == groupedReport.summary.overallRiskLevel
        IN  /\ groupedReport.summary.totalBreakingChanges = b
            /\ groupedReport.summary.totalModifiedEndpoints = m
            /\ b > 10 => level = "critical"
            /\ (b > 5 /\ b <= 10) => level = "high"
            /\ (b <= 5 /\ (b > 0 \/ m > 20)) => level = "medium"
            /\ (b = 0 /\ m <= 20) => level = "low"
            /\ b = 11 => level = "critical"
            /\ b = 6 => level = "high"
            /\ (b = 3 /\ m = 0) => level = "medium"
            /\ (b = 0 /\ m = 21) => level = "medium"
            /\ (b = 0 /\ m = 20) => level = "low"

C5_Witness ==
    /\ pc = "groupssaved"
    /\ Get(groupedReport.groups, "all").summary.breakingChanges = 6
    /\ Get(groupedReport.groups, "all").summary.riskLevel = "critical"
    /\ Get(groupedReport.groups, "api").summary.breakingChanges = 0
    /\ groupedReport.summary.totalBreakingChanges = 6
    /\ groupedReport.summary.overallRiskLevel = "high"

-----------------------------------------------------------------------------
(* Properties of the records of matched operations *)

\* The operations (path, method key) that both loaded documents have.
MatchedOperations == OperationsOf(oldSpec) \cap OperationsOf(newSpec)

OperationAt(spec, e) == Get(Get(PathsOf(spec), e[1]), e[2])

\* The records of a list for the operation e.
RecordsOf(records, e) ==
    SelectSeq(records, LAMBDA r : r.path = e[1] /\ r.method = ToUpperCase(e[2]))

\* The (location, name) pairs an operation requires.
RequiredPairs(operation) ==
    LET params == OrElse(Field(operation, "parameters"), JArr(<<>>)).v
    IN  {<<JStr(params[i].in), JStr(NameText(params[i].name))>> :
           i \in {j \in 1..Len(params) : params[j].required}}

\* C11: for every operation matched by (path, method) there is exactly one
\* REQUIRED_PARAMETER_ADDED record for each (location, name) pair required in
\* new and not required in old, none for any other pair, and the record's
\* parameter field is {name, location} of that pair.
C11_OneRecordPerNewlyRequiredPair ==
    (pc = "analyzed" /\ BothPresent) =>
        \A e \in MatchedOperations :
            LET added == OfType(RecordsOf(changes.breaking, e), "REQUIRED_PARAMETER_ADDED")
                expected == RequiredPairs(OperationAt(newSpec, e))
                            \ RequiredPairs(OperationAt(oldSpec, e))
            IN  /\ {<<r.parameter.location, r.parameter.name>> : r \in Range(added)} = expected
                /\ Len(added) = Cardinality(expected)

\* The responses map of an operation, as the set of its status codes and
\* the response under a code.
CodesOf(operation) ==
    LET responses == Field(operation, "responses")
    IN  IF responses = JUndef THEN {} ELSE Range(Keys(responses))

ResponseAt(operation, code) == Get(operation.responses, code)

HasSchemaUnder(response, contentType) ==
    /\ "content" \in DOMAIN response
    /\ contentType \in Range(Keys(response.content))
    /\ Get(response.content, contentType).schema # JUndef

\* The schema a response yields: the JSON content type's, else the XML
\* content type's, else the bare schema field; JUndef when it yields none.
SchemaYielded(response) ==
    CASE HasSchemaUnder(response, "application/json") ->
             Get(response.content, "application/json").schema
      [] HasSchemaUnder(response, "application/xml") ->
             Get(response.content, "application/xml").schema
      [] OTHER -> response.schema

PropertyNames(schema) ==
    IF "properties" \in DOMAIN schema THEN Range(Keys(schema.properties)) ELSE {}

RequiredNames(schema) ==
    IF "required" \in DOMAIN schema THEN Range(schema.required.v) ELSE {}

\* A property required in old is not required in new, or a property of old
\* is not a property of new.
LosesProperty(oldSchema, newSchema) ==
    \/ RequiredNames(oldSchema) \ RequiredNames(newSchema) # {}
    \/ PropertyNames(oldSchema) \ PropertyNames(newSchema) # {}

\* C12: for every matched operation and every status code, there is exactly
\* one RESPONSE_SCHEMA_CHANGED record with that code when the code is a 2xx
\* code of both responses maps, both responses yield a schema (JSON content
\* type, else XML content type, else bare field) and the new schema loses a
\* required name or a property name of the old one; otherwise there is none.
C12_ResponseSchemaChangedRecords ==
    (pc = "analyzed" /\ BothPresent) =>
        \A e \in MatchedOperations :
            \A k \in 1..Len(StatusCodes) :
                LET code == StatusCodes[k]
                    oldOperation == OperationAt(oldSpec, e)
                    newOperation == OperationAt(newSpec, e)
                    records == SelectSeq(OfType(RecordsOf(changes.breaking, e),
                                                "RESPONSE_SCHEMA_CHANGED"),
                                         LAMBDA r : r.statusCode = code)
                    expected ==
                        /\ code \in {"200", "201"}
                        /\ code \in CodesOf(oldOperation) \cap CodesOf(newOperation)
                        /\ SchemaYielded(ResponseAt(oldOperation, code)) # JUndef
                        /\ SchemaYielded(ResponseAt(newOperation, code)) # JUndef
                        /\ LosesProperty(SchemaYielded(ResponseAt(oldOperation, code)),
                                         SchemaYielded(ResponseAt(newOperation, code)))
                IN  Len(records) = IF expected THEN 1 ELSE 0

\* The old responses lose a property under 200, 201 and 404; new has no 201.
C12_Witness ==
    /\ pc = "analyzed"
    /\ BothPresent
    /\ CodesOf(OperationAt(oldSpec, <<"/items", "get">>)) = {"200", "201", "404"}
    /\ CodesOf(OperationAt(newSpec, <<"/items", "get">>)) = {"200", "404"}
    /\ SchemaYielded(ResponseAt(OperationAt(oldSpec, <<"/items", "get">>), "404"))
          # SchemaYielded(ResponseAt(OperationAt(newSpec, <<"/items", "get">>), "404"))
    /\ Len(changes.breaking) = 1
    /\ changes.breaking[1].type = "RESPONSE_SCHEMA_CHANGED"
    /\ changes.breaking[1].statusCode = "200"

\* The number of parameters of an operation that are not required.
NonRequiredCount(operation) ==
    LET params == OrElse(Field(operation, "parameters"), JArr(<<>>)).v
    IN  Cardinality({i \in 1..Len(params) : ~params[i].required})

\* C13: for every matched operation there is at most one modifiedEndpoints
\* record; there is one exactly when the summary changed, the description
\* changed or the number of non-required parameters grew, and its changes
\* list holds one tag for each of these that holds, in this order.
C13_OneModifiedRecordWithAccumulatedTags ==
    (pc = "analyzed" /\ BothPresent) =>
        \A e \in MatchedOperations :
            LET oldOperation == OperationAt(oldSpec, e)
                newOperation == OperationAt(newSpec, e)
                records == RecordsOf(changes.modifiedEndpoints, e)
                tags == (IF oldOperation.summary = newOperation.summary
                         THEN <<>> ELSE <<"Summary updated">>) \o
                        (IF oldOperation.description = newOperation.description
                         THEN <<>> ELSE <<"Description updated">>) \o
                        (IF NonRequiredCount(newOperation) <= NonRequiredCount(oldOperation)
                         THEN <<>> ELSE <<"Optional parameters added">>)
            IN  IF tags = <<>> THEN records = <<>>
                ELSE Len(records) = 1 /\ records[1].changes = tags

C13_Witness ==
    /\ pc = "analyzed"
    /\ BothPresent
    /\ changes.modifiedEndpoints =
          <<[path |-> "/items", method |-> "GET",
             changes |-> <<"Summary updated", "Description updated",
                           "Optional parameters added">>]>>

\* The operations of a loaded document as (path, METHOD), in the order of
\* its path keys and, within a path, of its method keys.
DeclarationOrder(spec) ==
    Flatten(MapSeq(Keys(PathsOf(spec)),
                   LAMBDA p : MapSeq(SelectSeq(Keys(Get(PathsOf(spec), p)),
                                               LAMBDA m : m # "parameters"),
                                     LAMBDA m : <<p, ToUpperCase(m)>>)))

\* The place of an operation in an order.
Place(order, op) == CHOOSE i \in 1..Len(order) : order[i] = op

\* The records name operations of the order and come in that order.
Follows(records, order) ==
    /\ \A i \in 1..Len(records) : <<records[i].path, records[i].method>> \in Range(order)
    /\ \A i, j \in 1..Len(records) :
          i < j => Place(order, <<records[i].path, records[i].method>>)
                   <= Place(order, <<records[j].path, records[j].method>>)

SharedOf(spec, path) == Get(Get(PathsOf(spec), path), "parameters")

\* The reserved key differs between old and new on some path: added,
\* removed or changed.
ReservedKeyDiffers == \E p \in PathKeys : SharedOf(oldSpec, p) # SharedOf(newSpec, p)

\* C15: no record of newEndpoints, breaking or modifiedEndpoints has the
\* reserved key `parameters` as its method, whether the key is added,
\* removed or changed between old and new.
C15_ReservedKeyIsNeverAnOperation ==
    (pc = "analyzed" /\ BothPresent) =>
        \A r \in Range(changes.newEndpoints) \cup Range(changes.breaking)
                 \cup Range(changes.modifiedEndpoints) :
            r.method \notin {"parameters", ToUpperCase("parameters")}

\* The reserved key is changed on /items, where the method post is added,
\* and removed with the whole path /users.
C15_Witness ==
    /\ pc = "analyzed"
    /\ BothPresent
    /\ SharedOf(oldSpec, "/items") # JUndef
    /\ SharedOf(newSpec, "/items") # JUndef
    /\ SharedOf(oldSpec, "/items") # SharedOf(newSpec, "/items")
    /\ Len(changes.newEndpoints) = 1
    /\ changes.newEndpoints[1].method = "POST"

\* A required (location, name) pair is added to the matched operation e and
\* its summary, its description, its number of non-required parameters and
\* its responses are those of old.
RequiredParameterAddedAlone(e) ==
    LET oldOperation == OperationAt(oldSpec, e)
        newOperation == OperationAt(newSpec, e)
    IN  /\ oldOperation.summary = newOperation.summary
        /\ oldOperation.description = newOperation.description
        /\ NonRequiredCount(oldOperation) = NonRequiredCount(newOperation)
        /\ oldOperation.responses = newOperation.responses
        /\ RequiredPairs(newOperation) \ RequiredPairs(oldOperation) # {}

\* C24: a required parameter added to a matched operation whose summary,
\* description and optional-parameter count are unchanged gives a breaking
\* record and no modified record; with GET /items the one operation of old,
\* one required parameter added to it and POST /items new, the result is one
\* new endpoint (POST /items), one REQUIRED_PARAMETER_ADDED record and the
\* summary {1, 1, 0, medium}; for the parameter page of the query the record
\* names {name: page, location: query}.
C24_RequiredParameterAloneIsBreakingNotModified ==
    (pc = "analyzed" /\ BothPresent) =>
        /\ \A e \in MatchedOperations :
              RequiredParameterAddedAlone(e) =>
                  /\ RecordsOf(changes.modifiedEndpoints, e) = <<>>
                  /\ OfType(RecordsOf(changes.breaking, e), "REQUIRED_PARAMETER_ADDED") # <<>>
        /\ ( /\ Keys(PathsOf(oldSpec)) = <<"/items">>
             /\ Keys(PathsOf(newSpec)) = <<"/items">>
             /\ Keys(Get(PathsOf(oldSpec), "/items")) = <<"get">>
             /\ Keys(Get(PathsOf(newSpec), "/items")) = <<"get", "post">>
             /\ RequiredParameterAddedAlone(<<"/items", "get">>)
             /\ Cardinality(RequiredPairs(OperationAt(newSpec, <<"/items", "get">>))
                            \ RequiredPairs(OperationAt(oldSpec, <<"/items", "get">>))) = 1 )
           => /\ Len(changes.newEndpoints) = 1
              /\ changes.newEndpoints[1].path = "/items"
              /\ changes.newEndpoints[1].method = "POST"
              /\ Len(changes.breaking) = 1
              /\ changes.breaking[1].type = "REQUIRED_PARAMETER_ADDED"
              /\ changes.breaking[1].path = "/items"
              /\ changes.breaking[1].method = "GET"
              /\ changes.modifiedEndpoints = <<>>
              /\ changes.summary = [breakingChanges |-> 1, newEndpoints |-> 1,
                                    modifiedEndpoints |-> 0, riskLevel |-> "medium"]
              /\ RequiredPairs(OperationAt(newSpec, <<"/items", "get">>))
                     = {<<JStr("query"), JStr("page")>>}
                 => changes.breaking[1].parameter =
                        [name |-> JStr("page"), location |-> JStr("query")]

\* Old: GET /items without parameters.  New: GET /items with the required
\* query parameter page, and POST /items.
C24_Witness ==
    /\ pc = "analyzed"
    /\ oldSpec = OneOperation(Operation(JUndef, JUndef, JUndef, JUndef))
    /\ newSpec = TwoMethods(Operation(JUndef, JUndef,
                                      JArr(<<Parameter(<<"page">>, TRUE)>>), JUndef), OpA)
    /\ Len(changes.breaking) = 1
    /\ changes.summary.riskLevel = "medium"

\* C25: a second analyze() on the same ChangeDetector returns lists and a
\* summary equal to those the first call returned: nothing is accumulated
\* from the earlier call.
C25_RepeatedAnalyzeReturnsEqualChangeSets ==
    [][(pc = "analyzed" /\ pc' = "analyzedagain") => changes' = changes]_vars

\* C26: every newEndpoints record names an operation of new that is not one
\* of old; every ENDPOINT_REMOVED and METHOD_REMOVED record names an operation
\* of old that is not one of new; every REQUIRED_PARAMETER_ADDED,
\* RESPONSE_SCHEMA_CHANGED and modifiedEndpoints record names an operation of
\* both; so no operation is reported both as new and as removed.
C26_NoChangeIsFabricated ==
    (pc = "analyzed" /\ BothPresent) =>
        LET removed == OfType(changes.breaking, "ENDPOINT_REMOVED")
                       \o OfType(changes.breaking, "METHOD_REMOVED")
            changed == OfType(changes.breaking, "REQUIRED_PARAMETER_ADDED")
                       \o OfType(changes.breaking, "RESPONSE_SCHEMA_CHANGED")
                       \o changes.modifiedEndpoints
        IN  /\ Named(changes.newEndpoints)
                  \subseteq UpperCased(OperationsOf(newSpec) \ OperationsOf(oldSpec))
            /\ Named(removed) \subseteq UpperCased(OperationsOf(oldSpec) \ OperationsOf(newSpec))
            /\ Named(changed) \subseteq UpperCased(MatchedOperations)
            /\ Len(removed) + Len(changed) - Len(changes.modifiedEndpoints)
                  = Len(changes.breaking)
            /\ Named(changes.newEndpoints) \cap Named(removed) = {}

\* The path /items of both documents has GET in old alone and POST in new
\* alone: one operation is removed and another is new.
C26_Witness ==
    /\ pc = "analyzed"
    /\ BothPresent
    /\ Named(changes.newEndpoints) = {<<"/items", "POST">>}
    /\ Named(OfType(changes.breaking, "METHOD_REMOVED")) = {<<"/items", "GET">>}
    /\ Len(changes.breaking) = 1

-----------------------------------------------------------------------------
(* Properties of the grouped run *)

\* The group documents of a directory: the listed files named
\* apiDocs-<group>.json, .yaml or .yml; none when there is no directory.
GroupDocuments(directory) ==
    IF directory.kind # "dir" THEN {}
    ELSE {f.file : f \in {g \in Range(directory.files) :
                             /\ g.file.prefix = "apiDocs-"
                             /\ g.file.ext \in {"json", "yaml", "yml"}}}

GroupNames(directory) == {f.name : f \in GroupDocuments(directory)}

\* discoverGroups has run.
Discovered == pc \in {"groupsanalyzed", "groupsthrew", "groupssaved", "savethrew"}

\* C16: after discoverGroups there is a group for every group document of
\* the new directory; its oldPath is the path of the group document of that
\* name in the old directory when there is one and null otherwise, for each
\* group on its own.
C16_GroupsArePairedByName ==
    Discovered =>
        \A name \in GroupNames(newVersionDir) :
            LET group == Get(groups, name)
                olds == {f \in GroupDocuments(oldVersionDir) : f.name = name}
            IN  /\ group # JUndef
                /\ group.oldPath \in IF olds = {} THEN {JNull}
                                     ELSE {PathJoin("old", f) : f \in olds}

\* The analysis of the group meets the unexpected shape: both documents
\* load, and the operation they share has parameters that are not an array
\* in new.
MeetsUnexpectedShape(group) ==
    /\ group.oldPath # JNull
    /\ GroupFile(group.oldPath).kind = "parsed"
    /\ GroupFile(group.newPath) = Parsed(OneOperation(OpUnexpected))

\* The entry of a group analysed on its own, by a detector of its own.
EntryAlone(group) ==
    GroupEntry(group, analyze(loadSpec(GroupFile(group.oldPath)).out,
                              loadSpec(GroupFile(group.newPath)).out,
                              EmptyChanges).out)

\* C17: after analyzeAllGroups every group has an entry; the entry of a group
\* whose analysis threw has empty lists, the summary {0, 0, 0, unknown} and
\* groupInfo.error set, and the entry of every other group is the one its
\* two documents give on their own, whichever groups failed before it.
C17_GroupFailureIsIsolated ==
    pc = "groupsanalyzed" =>
        \A i \in 1..Len(groups.v) :
            LET group == groups.v[i].value
                entry == Get(groupedChanges, groups.v[i].key)
            IN  /\ entry # JUndef
                /\ IF MeetsUnexpectedShape(group)
                   THEN /\ entry.breaking = <<>>
                        /\ entry.newEndpoints = <<>>
                        /\ entry.modifiedEndpoints = <<>>
                        /\ entry.summary = [breakingChanges |-> 0, newEndpoints |-> 0,
                                            modifiedEndpoints |-> 0, riskLevel |-> "unknown"]
                        /\ HasError(entry)
                        /\ entry.groupInfo.error.t = "string"
                   ELSE entry = EntryAlone(group)

\* The group all fails; the group api, analysed after it, has its removed
\* endpoint.
C17_Witness ==
    /\ pc = "groupsanalyzed"
    /\ Keys(groupedChanges) = <<"all", "api">>
    /\ MeetsUnexpectedShape(Get(groups, "all"))
    /\ HasError(Get(groupedChanges, "all"))
    /\ ~HasError(Get(groupedChanges, "api"))
    /\ Len(Get(groupedChanges, "api").breaking) = 1
    /\ Get(groupedChanges, "api").summary.riskLevel = "medium"

\* The entries of the grouped report as written.
ReportEntries == {groupedReport.groups.v[i].value : i \in 1..Len(groupedReport.groups.v)}

RECURSIVE Total(_, _)
\* The sum of one summary count over a set of entries with distinct names.
Total(entries, count) ==
    IF entries = {} THEN 0
    ELSE LET e == CHOOSE x \in entries : TRUE
         IN  e.summary[count] + Total(entries \ {e}, count)

\* C18: in every grouped report the three totals are the sums of the groups'
\* summary counts, a failed group counting 0, and totalGroups is the number
\* of entries of groups.
C18_TotalsAreSumsOverGroups ==
    groupedReport # JUndef =>
        /\ groupedReport.summary.totalBreakingChanges = Total(ReportEntries, "breakingChanges")
        /\ groupedReport.summary.totalNewEndpoints = Total(ReportEntries, "newEndpoints")
        /\ groupedReport.summary.totalModifiedEndpoints
              = Total(ReportEntries, "modifiedEndpoints")
        /\ groupedReport.totalGroups = Cardinality(Range(Keys(groupedReport.groups)))
        /\ groupedReport.totalGroups = Len(groupedReport.groups.v)

\* A failed group next to a group with one new endpoint.
C18_Witness ==
    /\ pc = "groupssaved"
    /\ Keys(groupedReport.groups) = <<"all", "api">>
    /\ HasError(Get(groupedReport.groups, "all"))
    /\ Get(groupedReport.groups, "api").summary.newEndpoints = 1
    /\ Get(groupedReport.groups, "api").summary.modifiedEndpoints = 0
    /\ groupedReport.summary.totalNewEndpoints = 1
    /\ groupedReport.totalGroups = 2

\* The written summary holds the four fields of a change set's summary with
\* the values of the given one.
SameSummary(written, summary) ==
    /\ DOMAIN written = {"breakingChanges", "newEndpoints", "modifiedEndpoints", "riskLevel"}
    /\ written.breakingChanges = JNum(summary.breakingChanges)
    /\ written.newEndpoints = JNum(summary.newEndpoints)
    /\ written.modifiedEndpoints = JNum(summary.modifiedEndpoints)
    /\ written.riskLevel = JStr(summary.riskLevel)

\* C19: when there is a group named all, the legacy report's summary and its
\* breaking, newEndpoints and modifiedEndpoints lists are those of that
\* group, whatever the other groups hold.
C19_LegacyReportIsTheAllGroup ==
    (legacyReport # JUndef /\ "all" \in Range(Keys(groupedChanges))) =>
        LET allGroup == Get(groupedChanges, "all")
        IN  /\ SameSummary(legacyReport.summary, allGroup.summary)
            /\ legacyReport.changes.breaking = allGroup.breaking
            /\ legacyReport.changes.newEndpoints = allGroup.newEndpoints
            /\ legacyReport.changes.modifiedEndpoints = allGroup.modifiedEndpoints

\* The group all has a new endpoint, the group api a removed one.
C19_Witness ==
    /\ pc = "groupssaved"
    /\ Keys(groupedChanges) = <<"all", "api">>
    /\ Len(Get(groupedChanges, "all").newEndpoints) = 1
    /\ Len(Get(groupedChanges, "api").breaking) = 1
    /\ legacyReport.changes.breaking = <<>>
    /\ legacyReport.summary.riskLevel = JStr("low")

RECURSIVE Concatenated(_, _)
\* The lists of one category of the entries, one after the other.
Concatenated(entries, category) ==
    IF entries = <<>> THEN <<>>
    ELSE Head(entries).value[category] \o Concatenated(Tail(entries), category)

\* C20: when there is no group named all, each list of the legacy report is
\* the concatenation, in group order and with duplicates kept, of the
\* groups' lists of that category, and its summary is the aggregate summary
\* of the grouped report.
C20_LegacyReportIsTheConcatenation ==
    (legacyReport # JUndef /\ "all" \notin Range(Keys(groupedChanges))) =>
        /\ legacyReport.changes.breaking = Concatenated(groupedReport.groups.v, "breaking")
        /\ legacyReport.changes.newEndpoints
              = Concatenated(groupedReport.groups.v, "newEndpoints")
        /\ legacyReport.changes.modifiedEndpoints
              = Concatenated(groupedReport.groups.v, "modifiedEndpoints")
        /\ DOMAIN legacyReport.summary = DOMAIN groupedReport.summary
        /\ legacyReport.summary.totalBreakingChanges
              = JNum(groupedReport.summary.totalBreakingChanges)
        /\ legacyReport.summary.totalNewEndpoints
              = JNum(groupedReport.summary.totalNewEndpoints)
        /\ legacyReport.summary.totalModifiedEndpoints
              = JNum(groupedReport.summary.totalModifiedEndpoints)
        /\ legacyReport.summary.overallRiskLevel
              = JStr(groupedReport.summary.overallRiskLevel)

\* The groups api and internal each lost GET /users: the record is there
\* twice.
C20_Witness ==
    /\ pc = "groupssaved"
    /\ Keys(groupedChanges) = <<"api", "internal">>
    /\ Get(groupedChanges, "api").breaking
          = <<RemovedRecord("ENDPOINT_REMOVED", "/users", "get")>>
    /\ legacyReport.changes.breaking
          = <<RemovedRecord("ENDPOINT_REMOVED", "/users", "get"),
              RemovedRecord("ENDPOINT_REMOVED", "/users", "get")>>
    /\ legacyReport.summary.totalBreakingChanges = JNum(2)

-----------------------------------------------------------------------------
(* Properties of the ChangeAnalyzer run *)

\* The three shapes of changes-report.json.
FirstVersionShape(written) ==
    /\ written.summary.breakingChanges = JNum(0)
    /\ written.summary.riskLevel = JStr("low")
    /\ written.summary.newEndpoints = JStr("unknown")
    /\ Field(written, "error") = JUndef

ErrorShape(written) ==
    /\ Field(written, "error") # JUndef
    /\ written.summary.riskLevel = JStr("unknown")

\* The version directories of the service other than the current one.
PriorVersionDirs ==
    IF versions.kind # "dir" THEN {}
    ELSE {versions.files[i].name :
            i \in {j \in 1..Len(versions.files) :
                     /\ versions.files[j].isDirectory
                     /\ versions.files[j].name # currentVersion}}

\* C21: the first-version report (breaking 0, riskLevel low, newEndpoints
\* 'unknown', no error field) is written only when the service has no prior
\* version directory at all; the error report (error field, riskLevel
\* 'unknown') only when the detection threw; every other run writes the
\* grouped report and the legacy report; no written changes-report.json has
\* two of the shapes.
C21_ReportShapesAreNotConflated ==
    pc = "analyzerdone" =>
        /\ FirstVersionShape(legacyReport) => PriorVersionDirs = {}
        /\ ErrorShape(legacyReport) => result.threw
        /\ (~FirstVersionShape(legacyReport) /\ ~ErrorShape(legacyReport)) =>
              /\ groupedReport = generateGroupedReport(groupedChanges)
              /\ legacyReport = generateLegacyCompatibleReport(groupedChanges, groupedReport)
        /\ ~(FirstVersionShape(legacyReport) /\ ErrorShape(legacyReport))

\* The prior version directories that hold apiDocs-all.yaml or
\* apiDocs-all.json.
PriorVersionDirsWithSpec ==
    {v \in PriorVersionDirs : \/ ExistsIn(VersionDirAt(versions, v), AllYaml)
                              \/ ExistsIn(VersionDirAt(versions, v), AllJson)}

\* findPreviousVersion(currentVersion) has returned.
PreviousVersionFound == pc \notin {"analyzer", "newspecfound", "analyzethrew"}

\* C29: what findPreviousVersion(currentVersion) returned is never the
\* directory of currentVersion; it is a version directory other than the
\* current one that holds apiDocs-all.yaml or apiDocs-all.json and to which no
\* other such directory compares greater under compareVersions, and the
\* detector is given that directory; it is null when there is no such
\* directory, and analyze then writes the first-version report.
C29_PreviousVersionIsTheGreatestOtherWithSpec ==
    PreviousVersionFound =>
        /\ prevVersionDir # currentVersion
        /\ IF PriorVersionDirsWithSpec = {}
           THEN /\ prevVersionDir = JNull
                /\ pc \in {"firstversion", "analyzerdone"}
                /\ pc = "analyzerdone" =>
                      /\ legacyReport = createFirstVersionReport
                      /\ result = Returned([isFirstVersion |-> TRUE])
           ELSE /\ prevVersionDir \in PriorVersionDirsWithSpec
                /\ \A v \in PriorVersionDirsWithSpec :
                      compareVersions(v, prevVersionDir) <= 0
                /\ oldVersionDir = VersionDirAt(versions, prevVersionDir)
                /\ pc # "firstversion"

\* The target is 1.2; the versions directory lists v1.2.0 before v1.10.0, both
\* with a main spec, and v1.10.0 is returned.
C29_Witness ==
    /\ pc = "created"
    /\ currentVersion = VersionName(FALSE, <<"1", "2">>)
    /\ versions.kind = "dir"
    /\ Len(versions.files) = 2
    /\ versions.files[1].name = VersionName(TRUE, <<"1", "2", "0">>)
    /\ versions.files[2].name = VersionName(TRUE, <<"1", "10", "0">>)
    /\ Cardinality(PriorVersionDirsWithSpec) = 2
    /\ prevVersionDir = VersionName(TRUE, <<"1", "10", "0">>)

\* The current version is the greatest and has a main spec of its own; the
\* lesser version is returned.
C29_CurrentIsSkipped ==
    /\ pc = "created"
    /\ currentVersion = VersionName(TRUE, <<"1", "10", "0">>)
    /\ versions.kind = "dir"
    /\ \E i \in 1..Len(versions.files) :
          /\ versions.files[i].name = currentVersion
          /\ versions.files[i].isDirectory
          /\ ExistsIn(versions.files[i].content, AllJson)
    /\ prevVersionDir = VersionName(TRUE, <<"1", "2", "0">>)

\* changes-report.json at the end of analyze(): the first-version report
\* without a previous version; else the legacy report next to the grouped
\* report when analyze() returned, and the error report, carrying the message
\* of what is thrown, when it threw.
ReportAtTheEnd ==
    /\ legacyReport # JUndef
    /\ IF prevVersionDir = JNull
       THEN /\ legacyReport = createFirstVersionReport
            /\ result = Returned([isFirstVersion |-> TRUE])
       ELSE IF result.threw
       THEN /\ ErrorShape(legacyReport)
            /\ legacyReport.error = result.out
       ELSE /\ groupedReport = generateGroupedReport(groupedChanges)
            /\ legacyReport = generateLegacyCompatibleReport(groupedChanges, groupedReport)
            /\ result = Returned([isFirstVersion |-> FALSE, groupedChanges |-> groupedChanges])

\* The steps of analyze() left to take, by the place reached.
StepsLeft ==
    CASE pc \in {"created"} -> 3
      [] pc \in {"groupsanalyzed"} -> 2
      [] pc \in {"firstversion", "groupsthrew", "savethrew", "groupssaved"} -> 1
      [] OTHER -> 0

C30_StepsLeftDecrease == [][PreviousVersionFound => StepsLeft' < StepsLeft]_vars

-----------------------------------------------------------------------------
(* Properties of the grouped report *)

\* The group names in the order in which discoverGroups meets them: the
\* order of the sorted scan of the new directory, every name at its first
\* place.
DiscoveryOrder ==
    Dedup(MapSeq(scanGroupFiles("new", newVersionDir), LAMBDA g : g.name))

\* C22: the keys of the grouped report's groups map are in the order in which
\* discoverGroups discovered the groups, whatever the group names are and
\* whichever groups fail in the analysis.
C22_GroupKeysFollowDiscoveryOrder ==
    pc = "groupssaved" => Keys(groupedReport.groups) = DiscoveryOrder

\* The place of a risk level in the order low < medium < high < critical.
Severity(level) ==
    CASE level = "low" -> 1
      [] level = "medium" -> 2
      [] level = "high" -> 3
      [] level = "critical" -> 4

\* The entries of the grouped report whose analysis returned.
AnalysedEntries ==
    {e \in Range(groupedReport.groups.v) : ~HasError(e.value)}

\* C27: in every grouped report overallRiskLevel is at least as severe, in
\* the order low < medium < high < critical, as the riskLevel of every group
\* of the report that was analysed successfully.
C27_AggregateIsAtLeastEveryGroupLevel ==
    groupedReport # JUndef =>
        \A e \in AnalysedEntries :
            Severity(groupedReport.summary.overallRiskLevel)
                >= Severity(e.value.summary.riskLevel)

\* C27, amended: overallRiskLevel is never more than one level below the
\* riskLevel of a group that was analysed successfully.
C27_AggregateIsAtMostOneLevelBelowAGroup ==
    groupedReport # JUndef =>
        \A e \in AnalysedEntries :
            Severity(groupedReport.summary.overallRiskLevel) + 1
                >= Severity(e.value.summary.riskLevel)

\* The group all has six breaking changes and is critical, the group api has
\* none: the aggregate, with six in total, is high.
C27_Witness ==
    /\ groupedReport # JUndef
    /\ Get(groupedReport.groups, "all").summary.breakingChanges = 6
    /\ Get(groupedReport.groups, "all").summary.riskLevel = "critical"
    /\ Get(groupedReport.groups, "api").summary.breakingChanges = 0
    /\ groupedReport.summary.overallRiskLevel = "high"

\* analyzeAllGroups has returned.
GroupsAnalysed == pc \in {"groupsanalyzed", "groupssaved", "savethrew"}

\* C28: after analyzeAllGroups there is exactly one entry for every group
\* name among the group documents of the new directory, also when two files
\* give the same name, and totalGroups is that number; a group that only the
\* old directory has gets no entry, and every breaking record of an entry,
\* and so of the reports' summaries, names a path of that entry's own old
\* document.
C28_OneEntryPerGroupNameOfTheNewDirectory ==
    GroupsAnalysed =>
        /\ Range(Keys(groupedChanges)) = GroupNames(newVersionDir)
        /\ Len(Keys(groupedChanges)) = Cardinality(GroupNames(newVersionDir))
        /\ groupedReport # JUndef =>
              /\ Keys(groupedReport.groups) = Keys(groupedChanges)
              /\ groupedReport.totalGroups = Cardinality(GroupNames(newVersionDir))
              /\ groupedReport.summary.totalBreakingChanges
                    = Total({Get(groupedChanges, name) : name \in GroupNames(newVersionDir)},
                            "breakingChanges")
        /\ \A name \in GroupNames(oldVersionDir) \ GroupNames(newVersionDir) :
              /\ Get(groups, name) = JUndef
              /\ Get(groupedChanges, name) = JUndef
        /\ \A e \in GroupEntries :
              /\ e.value.summary.breakingChanges = Len(e.value.breaking)
              /\ \A r \in Range(e.value.breaking) :
                    /\ e.value.groupInfo.oldFilePath # JNull
                    /\ e.value.groupInfo.oldFilePath.file.name = e.key
                    /\ r.path \in PathKeysOf(
                           loadSpec(GroupFile(e.value.groupInfo.oldFilePath)).out)

\* The new directory has apiDocs-all.json and apiDocs-all.yaml and no api
\* group; the old directory has the api group, with two operations, and
\* apiDocs-all.json with two operations, of which new has one.
C28_Witness ==
    /\ pc = "groupssaved"
    /\ GroupDocuments(newVersionDir) = {AllJson, AllYaml}
    /\ GroupNames(oldVersionDir) = {"all", "api"}
    /\ GroupFile(PathJoin("old", ApiJson)) = Parsed(TwoPaths)
    /\ Keys(groupedReport.groups) = <<"all">>
    /\ groupedReport.totalGroups = 1
    /\ groupedReport.summary.totalBreakingChanges = 1

-----------------------------------------------------------------------------
(* Properties of the script run *)

\* Nothing has been loaded, analysed or written.
NoWorkDone ==
    /\ oldSpec = JUndef
    /\ newSpec = JUndef
    /\ changes = JUndef
    /\ report = JUndef

ParametersNotAnArray ==
    /\ BothPresent
    /\ \E e \in MatchedOperations :
          \/ OrElse(Field(OperationAt(oldSpec, e), "parameters"), JArr(<<>>)).t # "array"
          \/ OrElse(Field(OperationAt(newSpec, e), "parameters"), JArr(<<>>)).t # "array"

====
